---------------------------- MODULE Spec2Model ----------------------------
(***************************************************************************)
(* CPE calculation platform: the aggregation engine (useCpeCalculator) and *)
(* the slide ruling state machine (ReviewScreen, SlideEditor and the audio *)
(* upload workflow).                                                       *)
(*                                                                         *)
(* Numbers.  The code computes with JavaScript numbers.  Every number the  *)
(* modelled code handles is a ratio of small integers, so a number is      *)
(* modelled as an exact rational <<n, d>> in lowest terms with d > 0       *)
(* (IEEE rounding is not modelled).  Texts are sequences of one-character  *)
(* strings.                                                                *)
(***************************************************************************)
EXTENDS Integers, Sequences, FiniteSets, TLC

-----------------------------------------------------------------------------
(* Exact rational arithmetic standing for JavaScript number arithmetic.    *)

RECURSIVE Gcd(_, _)
Gcd(a, b) == IF b = 0 THEN a ELSE Gcd(b, a % b)

Abs(x) == IF x < 0 THEN -x ELSE x

\* n/d in lowest terms, d > 0.
Rat(n, d) == LET g == Gcd(Abs(n), d) IN <<n \div g, d \div g>>

Num(n) == <<n, 1>>

Zero == Num(0)

Plus(a, b) == Rat(a[1] * b[2] + b[1] * a[2], a[2] * b[2])

Minus(a, b) == Rat(a[1] * b[2] - b[1] * a[2], a[2] * b[2])

Times(a, b) == Rat(a[1] * b[1], a[2] * b[2])

\* a / k for an integer k > 0 (the code divides by the literals 180, 60, 2).
Over(a, k) == Rat(a[1], a[2] * k)

Less(a, b) == a[1] * b[2] < b[1] * a[2]

Leq(a, b) == a[1] * b[2] <= b[1] * a[2]

\* Math.floor, as an integer.
MathFloor(a) == a[1] \div a[2]

\* Math.round: the nearest integer, halves go up.
MathRound(a) == (2 * a[1] + a[2]) \div (2 * a[2])

\* The JavaScript remainder a % k for an integer k > 0: the sign of a.
Rem(a, k) ==
    LET q == IF a[1] >= 0 THEN a[1] \div (a[2] * k)
                          ELSE -((-a[1]) \div (a[2] * k))
    IN  Minus(a, Num(q * k))

\* x || 0 for an integer x (the falsy number 0 gives 0; every count the
\* callers pass is an integer, see QuestionInput).
OrZero(x) == IF x = 0 THEN 0 ELSE x

-----------------------------------------------------------------------------
(* Texts and the word count.                                               *)

IsSpace(c) == c \in {" ", "\n", "\t"}

RECURSIVE TrimStart(_)
TrimStart(s) ==
    IF s # <<>> /\ IsSpace(Head(s)) THEN TrimStart(Tail(s)) ELSE s

RECURSIVE TrimEnd(_)
TrimEnd(s) ==
    IF s # <<>> /\ IsSpace(s[Len(s)]) THEN TrimEnd(SubSeq(s, 1, Len(s) - 1))
    ELSE s

\* String.prototype.trim
Trim(s) == TrimEnd(TrimStart(s))

\* s.split(/\s+/): the pieces between maximal runs of whitespace; an empty
\* piece stands at either end where s starts or ends with whitespace, and
\* the empty text splits into one empty piece.
RECURSIVE SplitFrom(_, _)
SplitFrom(s, cur) ==
    IF s = <<>> THEN <<cur>>
    ELSE IF IsSpace(Head(s)) THEN <<cur>> \o SplitFrom(TrimStart(s), <<>>)
    ELSE SplitFrom(Tail(s), Append(cur, Head(s)))

Split(s) == SplitFrom(s, <<>>)

\* Boolean(piece): the empty string is falsy.
Truthy(piece) == piece # <<>>

-----------------------------------------------------------------------------
(* Data model (types.ts).  An optional field that is absent is "" (a       *)
(* string field) or NoNumber (a number field).                             *)

OST == "OST"

AUDIO == "Audio"

BOTH == "Both"

SourceType == {OST, AUDIO, BOTH}

NoNumber == <<0, 0>>

\* audioMeta.transcription absent.
NoTranscription == [present |-> FALSE, segments |-> <<>>, wordCount |-> 0]

\* { source: 'manual' }
ManualMeta ==
    [source |-> "manual", fileId |-> "", fileName |-> "",
     originalDuration |-> NoNumber, transcription |-> NoTranscription,
     isTrimmed |-> FALSE, trimmedDuration |-> NoNumber]

\* A slide object that is born finalized.
createFinalizedSlideObject(id, ost, transcript) ==
    [id |-> id, ost |-> ost, transcript |-> transcript,
     selectedSource |-> OST, audioDuration |-> Zero, isFinalized |-> TRUE,
     audioMeta |-> ManualMeta, isDiscarded |-> FALSE,
     discardReason |-> "", discardNote |-> "",
     discardedAt |-> "", undoAt |-> ""]

createSlideObject(id, ost, transcript) ==
    [id |-> id, ost |-> ost, transcript |-> transcript,
     selectedSource |-> OST, audioDuration |-> Zero, isFinalized |-> FALSE,
     audioMeta |-> ManualMeta, isDiscarded |-> FALSE,
     discardReason |-> "", discardNote |-> "",
     discardedAt |-> "", undoAt |-> ""]

-----------------------------------------------------------------------------
(* The aggregation engine (hooks/useCpeCalculator).                        *)

getWordCount(text) == Len(SelectSeq(Split(Trim(text)), Truthy))

\* A filter that lets every slide through.
AnySlide(slide) == TRUE

NotDiscarded(slide) == ~slide.isDiscarded

\* slides.filter(slide => !slide.isDiscarded)
ActiveSlides(slides) == SelectSeq(slides, NotDiscarded)

\* A reduce step that also counts the words of the transcript.
AccumulateTranscript(acc, slide) ==
    [totalWords |->
        acc.totalWords + getWordCount(slide.ost)
            + getWordCount(slide.transcript),
     totalAvMinutes |-> Plus(acc.totalAvMinutes, slide.audioDuration)]

\* One step of the reduce: the switch on selectedSource.
Accumulate(acc, slide) ==
    CASE slide.selectedSource = OST ->
            [acc EXCEPT !.totalWords = @ + getWordCount(slide.ost)]
      [] slide.selectedSource = AUDIO ->
            [acc EXCEPT !.totalAvMinutes = Plus(@, slide.audioDuration)]
      [] slide.selectedSource = BOTH ->
            [acc EXCEPT !.totalWords = @ + getWordCount(slide.ost),
                        !.totalAvMinutes = Plus(@, slide.audioDuration)]
      [] OTHER -> acc

RECURSIVE Reduce(_, _)
Reduce(activeSlides, acc) ==
    IF activeSlides = <<>> THEN acc
    ELSE Reduce(Tail(activeSlides), Accumulate(acc, Head(activeSlides)))

Totals(slides) ==
    Reduce(ActiveSlides(slides), [totalWords |-> 0, totalAvMinutes |-> Zero])

TotalQuestions(reviewQuestions, finalExamQuestions) ==
    OrZero(reviewQuestions) + OrZero(finalExamQuestions)

WordsCpe(totalWords) == Over(Num(totalWords), 180)

\* Two credit minutes for each question.
QuestionsCpeTwo(totalQuestions) == Times(Num(totalQuestions), Num(2))

\* totalQuestions * 1.85
QuestionsCpe(totalQuestions) == Times(Num(totalQuestions), Rat(185, 100))

\* The question minutes taken off instead of added.
TotalCpeMinutesLessQuestions(wordsCpe, avCpe, questionsCpe) ==
    Minus(Plus(wordsCpe, avCpe), questionsCpe)

TotalCpeMinutes(wordsCpe, avCpe, questionsCpe) ==
    Plus(Plus(wordsCpe, avCpe), questionsCpe)

RawCpeHours(totalCpeMinutes) == Over(totalCpeMinutes, 60)

\* Rounding to the nearest half hour instead of down.
HalfHourNearest(rawCpeHours) ==
    Over(Num(MathRound(Times(rawCpeHours, Num(2)))), 2)

\* Math.floor(rawCpeHours * 2) / 2
HalfHourFloor(rawCpeHours) ==
    Over(Num(MathFloor(Times(rawCpeHours, Num(2)))), 2)

\* The rounded value as it is.
NoClamp(roundedCpe) == roundedCpe

\* roundedCpe > 0 ? roundedCpe : 0
ClampAtZero(roundedCpe) == IF Less(Zero, roundedCpe) THEN roundedCpe ELSE Zero

useCpeCalculator(slides, reviewQuestions, finalExamQuestions) ==
    LET totals == Totals(slides)
        totalQuestions == TotalQuestions(reviewQuestions, finalExamQuestions)
        wordsCpe == WordsCpe(totals.totalWords)
        avCpe == totals.totalAvMinutes
        questionsCpe == QuestionsCpe(totalQuestions)
        totalCpeMinutes == TotalCpeMinutes(wordsCpe, avCpe, questionsCpe)
        rawCpeHours == RawCpeHours(totalCpeMinutes)
        roundedCpe == HalfHourFloor(rawCpeHours)
    IN  [totalWords |-> totals.totalWords,
         totalAvMinutes |-> totals.totalAvMinutes,
         totalQuestions |-> totalQuestions,
         wordsCpe |-> wordsCpe,
         avCpe |-> avCpe,
         questionsCpe |-> questionsCpe,
         rawCpeHours |-> rawCpeHours,
         roundedCpe |-> ClampAtZero(roundedCpe)]

-----------------------------------------------------------------------------
(* State.                                                                  *)
(*   app     App: appPhase, slides, reviewQuestions, finalExamQuestions    *)
(*   review  ReviewScreen: slides, activeSlideId and the question counts   *)
(*   editor  SlideEditor mounted for the active slide (key = its id)       *)
(*   modal   AudioUploadModal of that editor                               *)
(*   pending remote calls of the modal that have not returned              *)
(*   edits   number of values typed or selected so far (at most MaxEdits)  *)
(*   hook    one useCpeCalculator instance: its inputs and memoized value  *)
(*   upload  UploadScreen: the pending parse, the error shown              *)
(*   transcribed  history: the file ids whose transcribe call returned     *)
(*           successfully (the program keeps no such record)               *)
(*   download the csv last handed to downloadCsv                           *)

VARIABLES app, review, editor, modal, pending, edits, hook, upload,
          transcribed, download

vars ==
    <<app, review, editor, modal, pending, edits, hook, upload, transcribed,
      download>>

\* No csv has been downloaded.
NoDownload == [report |-> "none", total |-> 0, rows |-> <<>>]

\* Bounds of the model.
MaxSlides == 2

MaxEdits == 2

MaxPending == 1

MaxHookSlides == 2


\* activeSlideId === null; also the position of "no slide" (findIndex -1).
Null == 0

DISCARD_REASONS ==
    {"Non-learning content (e.g., title/intro)",
     "Table of contents / Glossary / Appendix",
     "Duplicate content",
     "Media-only / Image-only slide",
     "Review Question",
     "Disclaimer Slide",
     "Other"}

\* Inputs the reviewer and the remote service supply.
SampleOst == <<"a", " ", "b">>

SampleTranscript == <<"c">>

TextInputs == {<<>>, <<"x", " ", "y", " ", "z">>}

MinuteInputs == {-1, 0, 1}

SecondInputs == {0, 30}

QuestionInputs == {-1, 0, 1}

\* The reasons the reviewer picks in the model: an ordinary one and "Other".
ReasonInputs == {"Duplicate content", "Other"}

NoteInputs == {"", "note"}

Files == {"a.wav"}

\* Durations (seconds) the upload endpoint reports.
RemoteDurations == {Rat(4, 10), Num(90)}

\* Segment texts the transcription endpoint reports: "a b" and an empty one.
RemoteTranscripts == {<< <<"a", " ", "b">>, <<>> >>}

\* Durations (seconds) the trim endpoint reports.
TrimmedDurations == {Num(60)}

\* What parseFile delivers: non-empty decks of fresh slides, ids 1..n.
ParsedDecks ==
    {[i \in 1..n |-> createSlideObject(i, SampleOst, SampleTranscript)] :
        n \in 1..MaxSlides}

-----------------------------------------------------------------------------
(* ReviewScreen helpers.                                                   *)

\* slides.findIndex(s => s.id === id), 1-based; Null when there is none.
FindIndex(slides, id) ==
    IF \E i \in 1..Len(slides) : slides[i].id = id
    THEN CHOOSE i \in 1..Len(slides) :
            /\ slides[i].id = id
            /\ \A j \in 1..(i - 1) : slides[j].id # id
    ELSE Null

ActiveSlideIndex == FindIndex(review.slides, review.activeSlideId)

\* The editor's slide prop: slides.find(s => s.id === activeSlideId).
ActiveSlide == review.slides[ActiveSlideIndex]

isLastSlide == ActiveSlideIndex = Len(review.slides)

\* A Complete Review button that is never disabled.
AlwaysComplete(slides) == TRUE

\* slides.filter(s => !s.isDiscarded).every(s => s.isFinalized)
allSlidesFinalized(slides) ==
    \A i \in 1..Len(slides) : ~slides[i].isDiscarded => slides[i].isFinalized

\* currentSlides.map(slide => slide.id === updatedSlide.id ? updatedSlide : slide)
handleSlideUpdate(slides, updatedSlide) ==
    [i \in 1..Len(slides) |->
        IF slides[i].id = updatedSlide.id THEN updatedSlide ELSE slides[i]]

\* The id handleNextSlide moves to (unchanged at the last position).
NextSlideId(slides, activeSlideId) ==
    LET currentNavIndex == FindIndex(slides, activeSlideId)
    IN  IF currentNavIndex < Len(slides) THEN slides[currentNavIndex + 1].id
        ELSE activeSlideId

PreviousSlideId(slides, activeSlideId) ==
    LET currentNavIndex == FindIndex(slides, activeSlideId)
    IN  IF currentNavIndex > 1 THEN slides[currentNavIndex - 1].id
        ELSE activeSlideId

\* The id handleDiscardAndNext moves to.
AfterDiscardId(slides, updatedSlide) ==
    LET currentIndex == FindIndex(slides, updatedSlide.id)
    IN  IF currentIndex < Len(slides) THEN slides[currentIndex + 1].id
        ELSE IF currentIndex > 1 THEN slides[currentIndex - 1].id
        ELSE Null

\* A ReviewScreen that starts with both question counts at 0.
MountReviewWithoutCounts(initialSlides, reviewQuestions, finalExamQuestions) ==
    [slides |-> initialSlides,
     activeSlideId |-> IF Len(initialSlides) > 0 THEN initialSlides[1].id
                       ELSE Null,
     reviewQuestions |-> 0,
     finalExamQuestions |-> 0]

MountReview(initialSlides, initialReviewQuestions, initialFinalExamQuestions) ==
    [slides |-> initialSlides,
     activeSlideId |-> IF Len(initialSlides) > 0 THEN initialSlides[1].id
                       ELSE Null,
     reviewQuestions |-> initialReviewQuestions,
     finalExamQuestions |-> initialFinalExamQuestions]

NoReview == MountReview(<<>>, 0, 0)

-----------------------------------------------------------------------------
(* SlideEditor and AudioUploadModal state.                                 *)

\* minutes + seconds / 60, the duration effect.
DurationOf(minutes, seconds) ==
    Plus(Num(OrZero(minutes)), Over(Num(OrZero(seconds)), 60))

\* The useState initial values, followed by the duration effect.
MountEditor(slide) ==
    LET initialMinutes == MathFloor(slide.audioDuration)
        initialSeconds ==
            MathRound(Times(Minus(slide.audioDuration, Num(initialMinutes)),
                            Num(60)))
    IN  [mounted |-> TRUE, key |-> slide.id,
         ost |-> slide.ost, transcript |-> slide.transcript,
         selectedSource |-> slide.selectedSource,
         isFinalized |-> slide.isFinalized, finalizeError |-> "",
         timer |-> IF slide.isFinalized THEN 1 ELSE 0,
         isAudioModalOpen |-> FALSE, isDiscardModalOpen |-> FALSE,
         discardReason |-> "", discardNote |-> "",
         audioMeta |-> slide.audioMeta,
         minutes |-> initialMinutes, seconds |-> initialSeconds,
         audioDuration |-> DurationOf(initialMinutes, initialSeconds)]

NoEditor ==
    [MountEditor(createSlideObject(Null, <<>>, <<>>)) EXCEPT !.mounted = FALSE]

\* Partial<AudioMeta> = {}
EmptyMeta == [ManualMeta EXCEPT !.source = ""]

\* The modal's initial state, which resetState restores.
resetState ==
    [view |-> "UPLOAD", error |-> "", selectedFile |-> "",
     audioMeta |-> EmptyMeta, currentDuration |-> Zero,
     segmentsToDelete |-> {}]

\* What is on screen after a handler has run: the editor is kept while the
\* active slide keeps its key and remounted otherwise; the modal exists only
\* in the editor's undiscarded view, and a call pending for a modal that was
\* unmounted returns to nothing.
Rendered(rv, ed, md, pd) ==
    LET idx == FindIndex(rv.slides, rv.activeSlideId)
    IN  IF idx = Null
        THEN [editor |-> NoEditor, modal |-> resetState, pending |-> {}]
        ELSE IF ed.mounted /\ ed.key = rv.slides[idx].id
        THEN IF rv.slides[idx].isDiscarded
             THEN [editor |-> ed, modal |-> resetState, pending |-> {}]
             ELSE [editor |-> ed, modal |-> md, pending |-> pd]
        ELSE [editor |-> MountEditor(rv.slides[idx]), modal |-> resetState,
              pending |-> {}]

\* Commit of one handler's state updates.
Commit(rv, ed, md, pd) ==
    LET r == Rendered(rv, ed, md, pd)
    IN  /\ review' = rv
        /\ editor' = r.editor
        /\ modal' = r.modal
        /\ pending' = r.pending

\* The reviewer can reach the editor's controls: the undiscarded view is
\* shown and no modal overlay covers it.
ControlsReachable ==
    /\ app.appPhase = "REVIEW"
    /\ editor.mounted
    /\ ~ActiveSlide.isDiscarded
    /\ ~editor.isAudioModalOpen
    /\ ~editor.isDiscardModalOpen

\* The ReviewScreen's own controls are not covered by an overlay.
ScreenReachable ==
    /\ app.appPhase = "REVIEW"
    /\ ~(editor.mounted /\ ~ActiveSlide.isDiscarded
            /\ (editor.isAudioModalOpen \/ editor.isDiscardModalOpen))

-----------------------------------------------------------------------------
(* One instance of the hook: the arguments of the call and, once the       *)
(* component has rendered, the metrics useMemo holds for them.             *)

\* A hook that filters its argument in place.
MemoFiltering(slides, reviewQuestions, finalExamQuestions) ==
    [slides |-> SelectSeq(slides, NotDiscarded),
     reviewQuestions |-> reviewQuestions,
     finalExamQuestions |-> finalExamQuestions, called |-> TRUE,
     metrics |-> useCpeCalculator(slides, reviewQuestions,
                                  finalExamQuestions)]

Memo(slides, reviewQuestions, finalExamQuestions) ==
    [slides |-> slides, reviewQuestions |-> reviewQuestions,
     finalExamQuestions |-> finalExamQuestions, called |-> TRUE,
     metrics |-> useCpeCalculator(slides, reviewQuestions,
                                  finalExamQuestions)]

\* A component about to render with these arguments.
Props(slides, reviewQuestions, finalExamQuestions) ==
    [Memo(<<>>, 0, 0) EXCEPT !.slides = slides,
                            !.reviewQuestions = reviewQuestions,
                            !.finalExamQuestions = finalExamQuestions,
                            !.called = FALSE]

NoHook == Props(<<>>, 0, 0)

\* "the quick brown fox" shortened to four one-letter words.
FoxText == <<"t", " ", "q", " ", "b", " ", "f">>

HookTexts == {<<" ", "a", " ", "\n", "b", " ">>, FoxText}

HookTranscript == <<"n", " ", "n", " ", "n">>

\* Minutes.
HookDurations == {Zero, Num(30)}

HookQuestions == {0, 1}

HookSlide(ost, source, duration, discarded) ==
    [createSlideObject(1, ost, HookTranscript) EXCEPT
        !.selectedSource = source, !.audioDuration = duration,
        !.isDiscarded = discarded]

HookSlides ==
    {HookSlide(ost, source, duration, discarded) :
        ost \in HookTexts, source \in SourceType,
        duration \in HookDurations, discarded \in BOOLEAN}

HookDecks == UNION {[1..n -> HookSlides] : n \in 0..MaxHookSlides}

\* The worked examples: one Audio slide of 90 minutes with 10 + 5 questions,
\* single Audio slides that make rawCpeHours 1.74, 1.75 and 2.0, and a Both
\* slide one word short of half an hour of credit, and arguments below 0.
HookExamples ==
    {Props(<<HookSlide(<<>>, AUDIO, Num(90), FALSE)>>, 10, 5),
     Props(<<HookSlide(<<>>, AUDIO, Rat(6264, 60), FALSE)>>, 0, 0),
     Props(<<HookSlide(<<>>, AUDIO, Num(105), FALSE)>>, 0, 0),
     Props(<<HookSlide(<<>>, AUDIO, Num(120), FALSE)>>, 0, 0),
     Props(<<HookSlide(<<"w">>, BOTH, Rat(5398, 180), FALSE)>>, 0, 0),
     Props(<<HookSlide(<<>>, AUDIO, Num(-90), FALSE)>>, 0, -1)}

HookInputs ==
    {Props(slides, r, f) :
        slides \in HookDecks, r \in HookQuestions, f \in HookQuestions}
    \cup HookExamples

\* The component renders: the hook computes the metrics of its arguments.
CallHook ==
    /\ ~hook.called
    /\ hook' = Memo(hook.slides, hook.reviewQuestions, hook.finalExamQuestions)
    /\ UNCHANGED <<app, review, editor, modal, pending, edits,
                   upload, transcribed, download>>

\* FinalizationScreen: useCpeCalculator(slides.filter(s => !s.isDiscarded), ..).
FinalizationScreen(slides, reviewQuestions, finalExamQuestions) ==
    Memo(SelectSeq(slides, NotDiscarded), reviewQuestions, finalExamQuestions)

\* StatsPanel: the metrics of the finalized active slides.
IsFinalized(slide) == slide.isFinalized

StatsPanel(slides, reviewQuestions, finalExamQuestions) ==
    Memo(SelectSeq(SelectSeq(slides, NotDiscarded), IsFinalized),
         reviewQuestions, finalExamQuestions)

-----------------------------------------------------------------------------
(* Ingestion (services/fileParser) and the UploadScreen.  A cell is the    *)
(* text String(cell || '') gives; a header is the result of the three      *)
(* column searches.                                                        *)

MaxRows == 2

IsDigit(c) == c \in {"0", "1", "2", "3", "4", "5", "6", "7", "8", "9"}

DigitValue(c) ==
    CASE c = "0" -> 0 [] c = "1" -> 1 [] c = "2" -> 2 [] c = "3" -> 3
      [] c = "4" -> 4 [] c = "5" -> 5 [] c = "6" -> 6 [] c = "7" -> 7
      [] c = "8" -> 8 [] c = "9" -> 9

RECURSIVE ParseDigits(_, _)
ParseDigits(s, acc) ==
    IF s # <<>> /\ IsDigit(Head(s))
    THEN ParseDigits(Tail(s), 10 * acc + DigitValue(Head(s)))
    ELSE acc

\* parseInt(text, 10): leading whitespace is skipped, a sign is read, then
\* the longest run of digits; NaN when there is no digit.
parseInt(text) ==
    LET s == TrimStart(text)
        signed == s # <<>> /\ Head(s) \in {"-", "+"}
        body == IF signed THEN Tail(s) ELSE s
    IN  IF body = <<>> \/ ~IsDigit(Head(body))
        THEN [isNaN |-> TRUE, value |-> 0]
        ELSE [isNaN |-> FALSE,
              value |-> IF signed /\ Head(s) = "-" THEN -ParseDigits(body, 0)
                        ELSE ParseDigits(body, 0)]

\* The filter of parseXlsx and parseCsv: with a slide-number column the row
\* is kept when its cell is a positive integer; without one, when one of its
\* text cells is not blank.
KeepRow(header, row) ==
    IF header.slideNo
    THEN LET idFromCell == parseInt(row.slideNo)
         IN  ~idFromCell.isNaN /\ idFromCell.value > 0
    ELSE LET ostContent == IF header.ost THEN Trim(row.ost) ELSE <<>>
             transcriptContent ==
                 IF header.transcript THEN Trim(row.transcript) ELSE <<>>
         IN  Len(ostContent) > 0 \/ Len(transcriptContent) > 0

\* The map of parseXlsx and parseCsv; index is the 0-based position among
\* the kept rows.
RowSlide(header, row, index) ==
    LET idFromCell == parseInt(row.slideNo)
        slideId == IF header.slideNo /\ ~idFromCell.isNaN
                        /\ idFromCell.value > 0
                   THEN idFromCell.value ELSE index + 1
    IN  createSlideObject(slideId,
                          IF header.ost THEN row.ost ELSE <<>>,
                          IF header.transcript THEN row.transcript ELSE <<>>)

ParseRows(header, rows) ==
    LET kept == SelectSeq(rows, LAMBDA row : KeepRow(header, row))
    IN  [i \in 1..Len(kept) |-> RowSlide(header, kept[i], i - 1)]

\* A settled promise of slides.
Resolved(slides) == [ok |-> TRUE, slides |-> slides, message |-> ""]

Rejected(message) == [ok |-> FALSE, slides |-> <<>>, message |-> message]

\* json is the header row followed by the data rows.
parseXlsx(file) ==
    IF 1 + Len(file.rows) < 2 THEN Resolved(<<>>)
    ELSE IF ~file.header.ost /\ ~file.header.transcript
    THEN Rejected("Could not find OST or Transcript columns in the Excel file.")
    ELSE Resolved(ParseRows(file.header, file.rows))

parseCsv(file) ==
    IF ~file.header.ost /\ ~file.header.transcript
    THEN Rejected("Could not find OST or Transcript columns in the CSV file.")
    ELSE Resolved(ParseRows(file.header, file.rows))

\* resolvedSlidesData.sort((a, b) => a._sortId - b._sortId), a stable sort.
RECURSIVE InsertBySortId(_, _)
InsertBySortId(sorted, part) ==
    IF sorted = <<>> THEN <<part>>
    ELSE IF parseInt(sorted[Len(sorted)].slideNo).value
                <= parseInt(part.slideNo).value
    THEN Append(sorted, part)
    ELSE Append(InsertBySortId(SubSeq(sorted, 1, Len(sorted) - 1), part),
                sorted[Len(sorted)])

RECURSIVE SortBySortId(_)
SortBySortId(parts) ==
    IF parts = <<>> THEN <<>>
    ELSE InsertBySortId(SortBySortId(SubSeq(parts, 1, Len(parts) - 1)),
                        parts[Len(parts)])

\* The rows of a presentation are its slide parts: the number in the part's
\* name, the joined text runs of the slide and of its notes.
parsePptx(file) ==
    IF ~file.isZip THEN Rejected("Can't find end of central directory")
    ELSE LET resolvedSlidesData == SortBySortId(file.rows)
         IN  Resolved([i \in 1..Len(resolvedSlidesData) |->
                createSlideObject(i, Trim(resolvedSlidesData[i].ost),
                                  Trim(resolvedSlidesData[i].transcript))])

ToLowerCase(c) ==
    CASE c = "C" -> "c" [] c = "S" -> "s" [] c = "V" -> "v" [] c = "X" -> "x"
      [] c = "L" -> "l" [] c = "P" -> "p" [] c = "T" -> "t" [] OTHER -> c

\* name.split('.').pop(): the text after the last dot, the whole name when
\* there is none.
RECURSIVE LastPiece(_, _)
LastPiece(name, cur) ==
    IF name = <<>> THEN cur
    ELSE IF Head(name) = "." THEN LastPiece(Tail(name), <<>>)
    ELSE LastPiece(Tail(name), Append(cur, Head(name)))

Extension(name) ==
    LET piece == LastPiece(name, <<>>)
    IN  [i \in 1..Len(piece) |-> ToLowerCase(piece[i])]

\* A switch of parseFile that reads every other extension as CSV.
parseFileAnyExtension(file) ==
    LET extension == Extension(file.name)
    IN  CASE extension \in {<<"x", "l", "s", "x">>, <<"x", "l", "s">>} ->
                parseXlsx(file)
          [] extension = <<"p", "p", "t", "x">> -> parsePptx(file)
          [] OTHER -> parseCsv(file)

parseFile(file) ==
    LET extension == Extension(file.name)
    IN  CASE extension \in {<<"x", "l", "s", "x">>, <<"x", "l", "s">>} ->
                parseXlsx(file)
          [] extension = <<"c", "s", "v">> -> parseCsv(file)
          [] extension = <<"p", "p", "t", "x">> -> parsePptx(file)
          [] OTHER -> Rejected("Unsupported file type.")

\* Files the reviewer can choose.
Headers == [ost : BOOLEAN, transcript : BOOLEAN, slideNo : BOOLEAN]

SlideNoCells == {<<>>, <<"2">>, <<"0">>, <<"x">>}

OstCells == {<<>>, <<" ">>, <<"a">>}

TranscriptCells == {<<>>, <<"b">>}

RowsOf(header) ==
    [slideNo : IF header.slideNo THEN SlideNoCells ELSE {<<>>},
     ost : IF header.ost THEN OstCells ELSE {<<>>},
     transcript : IF header.transcript THEN TranscriptCells ELSE {<<>>}]

XlsxName == <<"d", ".", "x", "l", "s", "x">>

CsvName == <<"d", ".", "c", "s", "v">>

XlsName == <<"d", ".", "X", "L", "S">>

PptxName == <<"d", ".", "p", "p", "t", "x">>

TxtName == <<"d", ".", "t", "x", "t">>

BareName == <<"d">>

SheetFiles ==
    {[name |-> name, isZip |-> FALSE, header |-> header, rows |-> rows] :
        name \in {XlsxName, CsvName},
        <<header, rows>> \in
            UNION {{<<h, r>> : r \in UNION {[1..n -> RowsOf(h)] :
                                               n \in 0..MaxRows}} :
                   h \in Headers}}

AllColumns == [ost |-> TRUE, transcript |-> TRUE, slideNo |-> TRUE]

SampleRows ==
    << [slideNo |-> <<"2">>, ost |-> <<" ", "a">>, transcript |-> <<>>],
       [slideNo |-> <<"1">>, ost |-> <<>>, transcript |-> <<"b">>] >>

OtherFiles ==
    {[name |-> name, isZip |-> isZip, header |-> AllColumns, rows |-> rows] :
        name \in {XlsName, PptxName, TxtName, BareName},
        isZip \in BOOLEAN, rows \in {<<>>, SampleRows}}

UploadFiles == SheetFiles \cup OtherFiles

NoFile ==
    [name |-> <<>>, isZip |-> FALSE,
     header |-> [ost |-> FALSE, transcript |-> FALSE, slideNo |-> FALSE],
     rows |-> <<>>]

\* UploadScreen's state after mount; file is the file of the pending parse.
InitialUpload ==
    [isLoading |-> FALSE, error |-> "", fileName |-> <<>>, file |-> NoFile]

-----------------------------------------------------------------------------
(* App.                                                                    *)

InitialApp ==
    [appPhase |-> "UPLOAD", slides |-> <<>>,
     reviewQuestions |-> 0, finalExamQuestions |-> 0]

\* handleFileUpload: the deck is stored and the ReviewScreen mounts.
handleFileUpload(parsedSlides) ==
    /\ app' = [app EXCEPT !.slides = parsedSlides, !.appPhase = "REVIEW"]
    /\ Commit(MountReview(parsedSlides, app.reviewQuestions,
                          app.finalExamQuestions),
              NoEditor, resetState, {})

\* UploadScreen hands over a parsed deck.
HandleFileUpload ==
    /\ app.appPhase = "UPLOAD"
    /\ \E parsedSlides \in ParsedDecks : handleFileUpload(parsedSlides)
    /\ UNCHANGED <<edits, hook, upload, transcribed, download>>

\* UploadScreen.handleFileChange up to the await: a file is chosen (the input
\* is disabled while a parse is pending).
UploadScreenFileChange ==
    /\ app.appPhase = "UPLOAD"
    /\ ~upload.isLoading
    /\ \E file \in UploadFiles :
        upload' = [isLoading |-> TRUE, error |-> "", fileName |-> file.name,
                   file |-> file]
    /\ UNCHANGED <<app, review, editor, modal, pending, edits,
                   hook, transcribed, download>>

\* The parse resolves with slides: onFileUpload; the UploadScreen unmounts.
ParseSucceeds ==
    /\ upload.isLoading
    /\ LET result == parseFile(upload.file)
       IN  /\ result.ok
           /\ Len(result.slides) > 0
           /\ handleFileUpload(result.slides)
    /\ upload' = InitialUpload
    /\ UNCHANGED <<edits, hook, transcribed, download>>

\* The parse resolves with no slide or rejects: setError, setIsLoading(false).
ParseFails ==
    /\ upload.isLoading
    /\ LET result == parseFile(upload.file)
       IN  /\ ~(result.ok /\ Len(result.slides) > 0)
           /\ upload' = [upload EXCEPT
                    !.isLoading = FALSE,
                    !.error = IF result.ok
                              THEN "Could not extract any slides."
                              ELSE result.message,
                    !.file = NoFile]
    /\ UNCHANGED <<app, review, editor, modal, pending, edits,
                   hook, transcribed, download>>

\* Complete Review (disabled unless allSlidesFinalized): handleReviewCompletion.
CompleteReview ==
    /\ ScreenReachable
    /\ allSlidesFinalized(review.slides)
    /\ app' = [appPhase |-> "FINALIZE", slides |-> review.slides,
               reviewQuestions |-> review.reviewQuestions,
               finalExamQuestions |-> review.finalExamQuestions]
    /\ Commit(NoReview, NoEditor, resetState, {})
    /\ hook' = FinalizationScreen(review.slides, review.reviewQuestions,
                                  review.finalExamQuestions)
    /\ UNCHANGED <<edits, upload, transcribed, download>>

HandleGoBackToReview ==
    /\ app.appPhase = "FINALIZE"
    /\ app' = [app EXCEPT !.appPhase = "REVIEW"]
    /\ Commit(MountReview(app.slides, app.reviewQuestions,
                          app.finalExamQuestions),
              NoEditor, resetState, {})
    /\ hook' = NoHook
    /\ UNCHANGED <<edits, upload, transcribed, download>>

HandleStartOver ==
    /\ app.appPhase = "FINALIZE"
    /\ app' = InitialApp
    /\ hook' = NoHook
    /\ UNCHANGED <<review, editor, modal, pending, edits, transcribed,
                   download>>
    /\ upload' = InitialUpload

-----------------------------------------------------------------------------
(* ReviewScreen: navigation and the question counts.                       *)

\* A click in the SlideList.
SelectSlide ==
    /\ ScreenReachable
    /\ \E i \in 1..Len(review.slides) :
        Commit([review EXCEPT !.activeSlideId = review.slides[i].id],
               editor, modal, pending)
    /\ UNCHANGED <<app, edits, hook, upload, transcribed, download>>

\* Next button, the discarded view's Next Slide button, or ArrowRight.
HandleNextSlide ==
    /\ app.appPhase = "REVIEW"
    /\ Commit([review EXCEPT !.activeSlideId =
                    NextSlideId(review.slides, review.activeSlideId)],
              editor, modal, pending)
    /\ UNCHANGED <<app, edits, hook, upload, transcribed, download>>

\* Previous button or ArrowLeft.
HandlePreviousSlide ==
    /\ app.appPhase = "REVIEW"
    /\ Commit([review EXCEPT !.activeSlideId =
                    PreviousSlideId(review.slides, review.activeSlideId)],
              editor, modal, pending)
    /\ UNCHANGED <<app, edits, hook, upload, transcribed, download>>

\* QuestionInput onChange: parseInt(value, 10) || 0.
SetReviewQuestions ==
    /\ ScreenReachable
    /\ edits < MaxEdits
    /\ \E n \in QuestionInputs :
        /\ n # review.reviewQuestions
        /\ review' = [review EXCEPT !.reviewQuestions = OrZero(n)]
    /\ edits' = edits + 1
    /\ UNCHANGED <<app, editor, modal, pending, hook, upload, transcribed,
                   download>>

SetFinalExamQuestions ==
    /\ ScreenReachable
    /\ edits < MaxEdits
    /\ \E n \in QuestionInputs :
        /\ n # review.finalExamQuestions
        /\ review' = [review EXCEPT !.finalExamQuestions = OrZero(n)]
    /\ edits' = edits + 1
    /\ UNCHANGED <<app, editor, modal, pending, hook, upload, transcribed,
                   download>>

-----------------------------------------------------------------------------
(* SlideEditor: field edits (local state only).                            *)

EditLocal(ed) ==
    /\ edits < MaxEdits
    /\ edits' = edits + 1
    /\ editor' = ed
    /\ UNCHANGED <<app, review, modal, pending, hook, upload, transcribed,
                   download>>

\* The OST textarea, replaced by a disabled one when isFinalized.
SetOst ==
    /\ ControlsReachable
    /\ ~editor.isFinalized
    /\ \E text \in TextInputs :
        /\ text # editor.ost
        /\ EditLocal([editor EXCEPT !.ost = text])

SetTranscript ==
    /\ ControlsReachable
    /\ ~editor.isFinalized
    /\ \E text \in TextInputs :
        /\ text # editor.transcript
        /\ EditLocal([editor EXCEPT !.transcript = text])

\* The source radio buttons, disabled when isFinalized.
SetSelectedSource ==
    /\ ControlsReachable
    /\ ~editor.isFinalized
    /\ \E source \in SourceType :
        /\ source # editor.selectedSource
        /\ EditLocal([editor EXCEPT !.selectedSource = source])

\* The duration inputs exist for Audio and Both and are disabled when
\* isFinalized.
DurationInputsEnabled ==
    /\ ControlsReachable
    /\ editor.selectedSource \in {AUDIO, BOTH}
    /\ ~editor.isFinalized

\* Minutes onChange: setMinutes(parseInt(value) || 0), setAudioMeta(manual),
\* then the duration effect.
SetMinutes ==
    /\ DurationInputsEnabled
    /\ \E value \in MinuteInputs :
        /\ value # editor.minutes
        /\ EditLocal([editor EXCEPT
                !.minutes = OrZero(value),
                !.audioMeta = ManualMeta,
                !.audioDuration = DurationOf(OrZero(value), editor.seconds)])

SetSeconds ==
    /\ DurationInputsEnabled
    /\ \E value \in SecondInputs :
        /\ value # editor.seconds
        /\ EditLocal([editor EXCEPT
                !.seconds = OrZero(value),
                !.audioMeta = ManualMeta,
                !.audioDuration = DurationOf(editor.minutes, OrZero(value))])

-----------------------------------------------------------------------------
(* SlideEditor: finalize and unlock.                                       *)

\* A finalize that validates nothing.
FinalizeNeverRejected(ed) == FALSE

\* The validation of handleFinalize.
FinalizeRejected(ed) ==
    /\ ~ed.isFinalized
    /\ ed.selectedSource = AUDIO \/ ed.selectedSource = BOTH
    /\ ed.audioDuration = Zero

\* A snapshot that leaves out the transcript.
WithoutTranscript(slide, ed) ==
    [slide EXCEPT !.ost = ed.ost,
                  !.selectedSource = ed.selectedSource,
                  !.audioDuration = ed.audioDuration,
                  !.audioMeta = ed.audioMeta]

\* { ...slide, ost, transcript, selectedSource, audioDuration, audioMeta }
WithEditorFields(slide, ed) ==
    [slide EXCEPT !.ost = ed.ost, !.transcript = ed.transcript,
                  !.selectedSource = ed.selectedSource,
                  !.audioDuration = ed.audioDuration,
                  !.audioMeta = ed.audioMeta]

\* The record handleFinalize passes to onUpdate.
FinalizedSlide(slide, ed) ==
    [WithEditorFields(slide, ed) EXCEPT !.isFinalized = ~ed.isFinalized]

\* The editor after handleFinalize.
FinalizedEditor(ed) ==
    IF FinalizeRejected(ed)
    THEN [ed EXCEPT !.finalizeError = "Please enter audio duration"]
    ELSE [ed EXCEPT !.finalizeError = "", !.isFinalized = ~ed.isFinalized,
                    !.timer = IF ed.isFinalized THEN 0 ELSE 1]

\* The slide collection after handleFinalize.
FinalizedSlides(slides, slide, ed) ==
    IF FinalizeRejected(ed) THEN slides
    ELSE handleSlideUpdate(slides, FinalizedSlide(slide, ed))

handleFinalize ==
    /\ Commit([review EXCEPT
                    !.slides = FinalizedSlides(review.slides, ActiveSlide,
                                               editor)],
              FinalizedEditor(editor), modal, pending)
    /\ UNCHANGED <<app, edits, hook, upload, transcribed, download>>

\* "Finalize Selection" / "Unlock to Edit", and "Finalize" on the last slide.
FinalizeButton ==
    /\ ControlsReachable
    /\ handleFinalize

\* The Ctrl+Enter listener on window, registered while the editor is mounted.
CtrlEnter ==
    /\ app.appPhase = "REVIEW"
    /\ editor.mounted
    /\ handleFinalize

\* "Finalize & Next" / "Next Slide": handleFinalizeAndNextClick.
FinalizeAndNextClick ==
    /\ ControlsReachable
    /\ ~isLastSlide
    /\ LET slides == IF editor.isFinalized THEN review.slides
                     ELSE FinalizedSlides(review.slides, ActiveSlide, editor)
           ed == IF editor.isFinalized THEN editor ELSE FinalizedEditor(editor)
           id == IF FinalizeRejected(editor) THEN review.activeSlideId
                 ELSE NextSlideId(review.slides, review.activeSlideId)
       IN  Commit([review EXCEPT !.slides = slides, !.activeSlideId = id],
                  ed, modal, pending)
    /\ UNCHANGED <<app, edits, hook, upload, transcribed, download>>

\* A re-sync effect that also runs while the slide is not finalized and
\* stores the editor's fields as they are.
SyncOfDrafts ==
    /\ app.appPhase = "REVIEW"
    /\ editor.mounted
    /\ Commit([review EXCEPT !.slides =
                    handleSlideUpdate(review.slides,
                        WithEditorFields(ActiveSlide, editor))],
              editor, modal, pending)
    /\ UNCHANGED <<app, edits, hook, upload, transcribed, download>>

\* A re-sync whose timer is not armed again once it has fired.
SyncOnce ==
    /\ app.appPhase = "REVIEW"
    /\ editor.mounted
    /\ editor.timer # 0
    /\ Commit([review EXCEPT !.slides =
                    handleSlideUpdate(review.slides,
                        [WithEditorFields(ActiveSlide, editor)
                            EXCEPT !.isFinalized = TRUE])],
              [editor EXCEPT !.timer = 0], modal, pending)
    /\ UNCHANGED <<app, edits, hook, upload, transcribed, download>>

\* The debounced effect: while isFinalized, every run of the effect arms a
\* timer of 500 ms that passes the editor's values to onUpdate. Field timer
\* of the editor is 0 when no timer is pending and the id of the pending
\* timer otherwise; two ids tell a new timer from the one that has fired.
\* The effect runs again whenever one of its dependencies differs from the
\* last render; slide and onUpdate are among them, and both are new objects
\* after every setSlides (handleSlideUpdate maps to a new array that holds
\* updatedSlide, and its useCallback depends on slides), so the firing of
\* the timer arms a new one.
DebouncedUpdate ==
    /\ app.appPhase = "REVIEW"
    /\ editor.mounted
    /\ editor.timer # 0
    /\ Commit([review EXCEPT !.slides =
                    handleSlideUpdate(review.slides,
                        [WithEditorFields(ActiveSlide, editor)
                            EXCEPT !.isFinalized = TRUE])],
              [editor EXCEPT !.timer = IF editor.isFinalized
                                       THEN 3 - editor.timer ELSE 0],
              modal, pending)
    /\ UNCHANGED <<app, edits, hook, upload, transcribed, download>>

-----------------------------------------------------------------------------
(* SlideEditor: discard and undo discard.                                  *)

DiscardModalShown ==
    /\ app.appPhase = "REVIEW"
    /\ editor.mounted
    /\ ~ActiveSlide.isDiscarded
    /\ editor.isDiscardModalOpen

\* The Discard Slide button.
OpenDiscardModal ==
    /\ ControlsReachable
    /\ editor' = [editor EXCEPT !.isDiscardModalOpen = TRUE]
    /\ UNCHANGED <<app, review, modal, pending, edits, hook,
                   upload, transcribed, download>>

\* The modal's Cancel button.
CancelDiscard ==
    /\ DiscardModalShown
    /\ editor' = [editor EXCEPT !.isDiscardModalOpen = FALSE]
    /\ UNCHANGED <<app, review, modal, pending, edits, hook,
                   upload, transcribed, download>>

\* The reason <select>: its options are DISCARD_REASONS.
SetDiscardReason ==
    /\ DiscardModalShown
    /\ \E reason \in ReasonInputs \cap DISCARD_REASONS :
        /\ reason # editor.discardReason
        /\ EditLocal([editor EXCEPT !.discardReason = reason])

\* The note input, rendered when the reason is "Other".
SetDiscardNote ==
    /\ DiscardModalShown
    /\ editor.discardReason = "Other"
    /\ \E note \in NoteInputs :
        /\ note # editor.discardNote
        /\ EditLocal([editor EXCEPT !.discardNote = note])

\* A discard that asks for no reason.
DiscardNeverRejected(ed) == FALSE

\* if (!discardReason) return;
DiscardRejected(ed) == ed.discardReason = ""

\* A discard that marks the stored record and takes nothing from the editor
\* but the reason and the note.
DiscardedStoredSlide(slide, ed) ==
    [slide EXCEPT
        !.isDiscarded = TRUE,
        !.discardReason = ed.discardReason,
        !.discardNote = IF ed.discardReason = "Other" THEN ed.discardNote
                        ELSE "",
        !.discardedAt = "timestamp"]

\* A discard that stores the editor's values and the flag but no reason.
DiscardedWithoutReason(slide, ed) ==
    [WithEditorFields(slide, ed) EXCEPT
        !.isDiscarded = TRUE,
        !.discardedAt = "timestamp"]

\* The record handleDiscardConfirm passes to onDiscardAndNext.
DiscardedSlide(slide, ed) ==
    [WithEditorFields(slide, ed) EXCEPT
        !.isDiscarded = TRUE,
        !.discardReason = ed.discardReason,
        !.discardNote = IF ed.discardReason = "Other" THEN ed.discardNote
                        ELSE "",
        !.discardedAt = "timestamp"]

\* handleDiscardConfirm, with handleDiscardAndNext of the ReviewScreen.
HandleDiscardConfirm ==
    /\ DiscardModalShown
    /\ IF DiscardRejected(editor)
       THEN UNCHANGED <<review, editor, modal, pending>>
       ELSE LET discardedSlide == DiscardedSlide(ActiveSlide, editor)
            IN  Commit([review EXCEPT
                            !.slides = handleSlideUpdate(review.slides,
                                                         discardedSlide),
                            !.activeSlideId = AfterDiscardId(review.slides,
                                                             discardedSlide)],
                       [editor EXCEPT !.isDiscardModalOpen = FALSE],
                       modal, pending)
    /\ UNCHANGED <<app, edits, hook, upload, transcribed, download>>

\* The record handleUndoDiscard passes to onUpdate.
UndoneSlide(slide) ==
    [slide EXCEPT !.isDiscarded = FALSE, !.undoAt = "timestamp"]

\* The Undo Discard button of the discarded view.
HandleUndoDiscard ==
    /\ app.appPhase = "REVIEW"
    /\ editor.mounted
    /\ ActiveSlide.isDiscarded
    /\ Commit([review EXCEPT !.slides =
                    handleSlideUpdate(review.slides, UndoneSlide(ActiveSlide))],
              editor, modal, pending)
    /\ UNCHANGED <<app, edits, hook, upload, transcribed, download>>

-----------------------------------------------------------------------------
(* AudioUploadModal.                                                       *)

ModalShown ==
    /\ app.appPhase = "REVIEW"
    /\ editor.mounted
    /\ ~ActiveSlide.isDiscarded
    /\ editor.isAudioModalOpen

\* The Upload Audio button, rendered for Audio and Both; the effect on
\* isOpen resets the modal.
OpenAudioModal ==
    /\ ControlsReachable
    /\ editor.selectedSource \in {AUDIO, BOTH}
    /\ editor' = [editor EXCEPT !.isAudioModalOpen = TRUE]
    /\ modal' = resetState
    /\ UNCHANGED <<app, review, pending, edits, hook, upload, transcribed,
                   download>>

\* handleClose: resetState(), onClose().
HandleClose ==
    /\ ModalShown
    /\ editor' = [editor EXCEPT !.isAudioModalOpen = FALSE]
    /\ modal' = resetState
    /\ UNCHANGED <<app, review, pending, edits, hook, upload, transcribed,
                   download>>

\* The file input of the UPLOAD view.
HandleFileChange ==
    /\ ModalShown
    /\ modal.view = "UPLOAD"
    /\ \E file \in Files :
        modal' = [modal EXCEPT !.error = "", !.selectedFile = file]
    /\ UNCHANGED <<app, review, editor, pending, edits, hook,
                   upload, transcribed, download>>

\* The calls of one endpoint that have not returned.
Outstanding(op) == Cardinality({call \in pending : call.op = op})

\* handleUpload up to its await.
HandleUpload ==
    /\ ModalShown
    /\ modal.view = "UPLOAD"
    /\ modal.selectedFile # ""
    /\ Outstanding("upload") < MaxPending
    /\ modal' = [modal EXCEPT !.view = "PROCESSING", !.error = ""]
    /\ pending' = pending \cup {[op |-> "upload", file |-> modal.selectedFile]}
    /\ UNCHANGED <<app, review, editor, edits, hook, upload, transcribed,
                   download>>

\* The metadata handleUpload stores from { file_id, duration }.
UploadedMeta(file, file_id, duration) ==
    [EmptyMeta EXCEPT !.source = "upload", !.fileId = file_id,
                      !.fileName = file, !.originalDuration = duration]

\* The ids the upload endpoint hands out, one per upload. An id is handed
\* out again only when the workflow, the outstanding calls and the record of
\* transcribed files no longer refer to it.
FileIds == <<"file-id", "file-id-2">>

IdInUse(id) ==
    \/ modal.audioMeta.fileId = id
    \/ \E call \in pending : call.op # "upload" /\ call.file = id
    \/ id \in transcribed

HasFreshFileId == \E k \in 1..Len(FileIds) : ~IdInUse(FileIds[k])

FreshFileId ==
    FileIds[CHOOSE k \in 1..Len(FileIds) :
                /\ ~IdInUse(FileIds[k])
                /\ \A j \in 1..(k - 1) : IdInUse(FileIds[j])]

\* handleUpload after a successful response.
UploadSucceeds ==
    /\ HasFreshFileId
    /\ \E call \in pending, duration \in RemoteDurations :
        /\ call.op = "upload"
        /\ modal' = [modal EXCEPT
                !.audioMeta = UploadedMeta(call.file, FreshFileId, duration),
                !.currentDuration = duration,
                !.view = "RESULT"]
        /\ pending' = pending \ {call}
    /\ UNCHANGED <<app, review, editor, edits, hook, upload, transcribed,
                   download>>

\* handleUpload's catch.
UploadFails ==
    /\ \E call \in pending :
        /\ call.op = "upload"
        /\ modal' = [modal EXCEPT !.error = "Upload failed", !.view = "UPLOAD"]
        /\ pending' = pending \ {call}
    /\ UNCHANGED <<app, review, editor, edits, hook, upload, transcribed,
                   download>>

\* handleTranscribe up to its await; nothing happens without a fileId.
HandleTranscribe ==
    /\ ModalShown
    /\ modal.view = "RESULT"
    /\ ~modal.audioMeta.transcription.present
    /\ IF modal.audioMeta.fileId = ""
       THEN UNCHANGED <<modal, pending>>
       ELSE /\ Outstanding("transcribe") < MaxPending
            /\ modal' = [modal EXCEPT !.view = "TRANSCRIBING", !.error = ""]
            /\ pending' = pending \cup {[op |-> "transcribe",
                                         file |-> modal.audioMeta.fileId]}
    /\ UNCHANGED <<app, review, editor, edits, hook, upload, transcribed,
                   download>>

\* segments.reduce((acc, s) => acc + s.text.trim().split(/\s+/).length, 0)
RECURSIVE SegmentsWordCount(_)
SegmentsWordCount(segments) ==
    IF segments = <<>> THEN 0
    ELSE Len(Split(Trim(Head(segments)))) + SegmentsWordCount(Tail(segments))

\* handleTranscribe after a successful response.
TranscribeSucceeds ==
    /\ \E call \in pending, segments \in RemoteTranscripts :
        /\ call.op = "transcribe"
        /\ modal' = [modal EXCEPT
                !.audioMeta.transcription =
                    [present |-> TRUE, segments |-> segments,
                     wordCount |-> SegmentsWordCount(segments)],
                !.view = "TRANSCRIBED"]
        /\ pending' = pending \ {call}
        /\ transcribed' = transcribed \cup {call.file}
    /\ UNCHANGED <<app, review, editor, edits, hook, upload, download>>

\* handleTranscribe's catch.
TranscribeFails ==
    /\ \E call \in pending :
        /\ call.op = "transcribe"
        /\ modal' = [modal EXCEPT !.error = "Transcription failed",
                                  !.view = "RESULT"]
        /\ pending' = pending \ {call}
    /\ UNCHANGED <<app, review, editor, edits, hook, upload, transcribed,
                   download>>

\* "Trim" in the RESULT view (enabled once transcribed) and "Trim This
\* Audio" in the TRANSCRIBED view: setView('TRIMMING').
ShowTrimming ==
    /\ ModalShown
    /\ \/ modal.view = "RESULT" /\ modal.audioMeta.transcription.present
       \/ modal.view = "TRANSCRIBED"
    /\ modal' = [modal EXCEPT !.view = "TRIMMING"]
    /\ UNCHANGED <<app, review, editor, pending, edits, hook,
                   upload, transcribed, download>>

\* "Back to Details" and "Cancel": setView('RESULT').
ShowResult ==
    /\ ModalShown
    /\ modal.view \in {"TRANSCRIBED", "TRIMMING"}
    /\ modal' = [modal EXCEPT !.view = "RESULT"]
    /\ UNCHANGED <<app, review, editor, pending, edits, hook,
                   upload, transcribed, download>>

SegmentTexts(segments) == {segments[i] : i \in 1..Len(segments)}

\* The checkboxes of the TRIMMING view.
HandleSegmentToggle ==
    /\ ModalShown
    /\ modal.view = "TRIMMING"
    /\ \E segmentText \in
            SegmentTexts(modal.audioMeta.transcription.segments) :
        modal' = [modal EXCEPT !.segmentsToDelete =
                    IF segmentText \in @ THEN @ \ {segmentText}
                    ELSE @ \cup {segmentText}]
    /\ UNCHANGED <<app, review, editor, pending, edits, hook,
                   upload, transcribed, download>>

\* handleTrim up to its await ("Delete Selected & Trim" is disabled while
\* nothing is selected).
HandleTrim ==
    /\ ModalShown
    /\ modal.view = "TRIMMING"
    /\ modal.segmentsToDelete # {}
    /\ IF modal.audioMeta.fileId = ""
       THEN /\ modal' = [modal EXCEPT !.error =
                    "Please select at least one segment to delete."]
            /\ UNCHANGED pending
       ELSE /\ Outstanding("trim") < MaxPending
            /\ modal' = [modal EXCEPT !.view = "PROCESSING", !.error = ""]
            /\ pending' = pending \cup {[op |-> "trim",
                                         file |-> modal.audioMeta.fileId]}
    /\ UNCHANGED <<app, review, editor, edits, hook, upload, transcribed,
                   download>>

\* handleTrim after a successful response.
TrimSucceeds ==
    /\ \E call \in pending, new_duration \in TrimmedDurations :
        /\ call.op = "trim"
        /\ modal' = [modal EXCEPT
                !.audioMeta.isTrimmed = TRUE,
                !.audioMeta.trimmedDuration = new_duration,
                !.currentDuration = new_duration,
                !.segmentsToDelete = {},
                !.view = "RESULT"]
        /\ pending' = pending \ {call}
    /\ UNCHANGED <<app, review, editor, edits, hook, upload, transcribed,
                   download>>

\* A catch that drops what the workflow holds.
TrimFailsLosingMeta ==
    /\ \E call \in pending :
        /\ call.op = "trim"
        /\ modal' = [resetState EXCEPT !.error = "Trim failed",
                                       !.view = "TRIMMING"]
        /\ pending' = pending \ {call}
    /\ UNCHANGED <<app, review, editor, edits, hook, upload, transcribed,
                   download>>

\* handleTrim's catch.
TrimFails ==
    /\ \E call \in pending :
        /\ call.op = "trim"
        /\ modal' = [modal EXCEPT !.error = "Trim failed",
                                  !.view = "TRIMMING"]
        /\ pending' = pending \ {call}
    /\ UNCHANGED <<app, review, editor, edits, hook, upload, transcribed,
                   download>>

\* The editor after handleAcceptDuration(durationInSeconds, meta) and the
\* duration effect.
handleAcceptDuration(ed, durationInSeconds, meta) ==
    LET newMinutes == MathFloor(Over(durationInSeconds, 60))
        newSeconds == MathRound(Rem(durationInSeconds, 60))
    IN  [ed EXCEPT !.minutes = newMinutes, !.seconds = newSeconds,
                   !.audioMeta = meta, !.isAudioModalOpen = FALSE,
                   !.audioDuration = DurationOf(newMinutes, newSeconds)]

\* Accept Duration in the RESULT view: handleAccept, then handleClose.
HandleAccept ==
    /\ ModalShown
    /\ modal.view = "RESULT"
    /\ editor' = handleAcceptDuration(editor, modal.currentDuration,
                        [modal.audioMeta EXCEPT !.source = "upload"])
    /\ modal' = resetState
    /\ UNCHANGED <<app, review, pending, edits, hook, upload, transcribed,
                   download>>

-----------------------------------------------------------------------------
(* The csv exports (services/exportService) and their buttons on the       *)
(* FinalizationScreen.  A download is the csvData handed to Papa.unparse:  *)
(* the cell of the total and the rows under the headers.                   *)

MaxExportSlides == 3

\* A filter of the word-count export that keeps discarded slides.
InWordCountReportAny(s) == s.selectedSource = OST \/ s.selectedSource = BOTH

InWordCountReport(s) ==
    ~s.isDiscarded /\ (s.selectedSource = OST \/ s.selectedSource = BOTH)

\* A filter of the audio export that keeps discarded slides.
InAudioReportAny(s) == s.selectedSource = AUDIO \/ s.selectedSource = BOTH

InAudioReport(s) ==
    ~s.isDiscarded /\ (s.selectedSource = AUDIO \/ s.selectedSource = BOTH)

\* ost.replace(/(\r\n|\n|\r)/gm, " ")
RECURSIVE Sanitize(_)
Sanitize(text) ==
    IF text = <<>> THEN <<>>
    ELSE IF Len(text) >= 2 /\ text[1] = "\r" /\ text[2] = "\n"
    THEN <<" ">> \o Sanitize(Tail(Tail(text)))
    ELSE IF text[1] = "\n" \/ text[1] = "\r"
    THEN <<" ">> \o Sanitize(Tail(text))
    ELSE <<text[1]>> \o Sanitize(Tail(text))

\* m' ss": the minutes and the seconds printed.
formatDurationForAudioExport(minutes) ==
    IF Less(minutes, Zero) THEN [m |-> 0, s |-> 0]
    ELSE LET totalSeconds == Times(minutes, Num(60))
         IN  [m |-> MathFloor(Over(totalSeconds, 60)),
              s |-> MathRound(Rem(totalSeconds, 60))]

\* N min n sec
formatTrimmedDuration(seconds) ==
    IF Leq(seconds, Zero) THEN [m |-> 0, s |-> 0]
    ELSE [m |-> MathFloor(Over(seconds, 60)),
          s |-> MathRound(Rem(seconds, 60))]

RECURSIVE TotalWordCount(_)
TotalWordCount(wordCountSlides) ==
    IF wordCountSlides = <<>> THEN 0
    ELSE TotalWordCount(SubSeq(wordCountSlides, 1, Len(wordCountSlides) - 1))
            + getWordCount(wordCountSlides[Len(wordCountSlides)].ost)

exportWordCountCsv(slides) ==
    LET wordCountSlides == SelectSeq(slides, InWordCountReport)
    IN  [report |-> "WordCount",
         total |-> TotalWordCount(wordCountSlides),
         rows |-> [i \in 1..Len(wordCountSlides) |->
                    <<wordCountSlides[i].id,
                      getWordCount(wordCountSlides[i].ost),
                      Sanitize(wordCountSlides[i].ost)>>]]

RECURSIVE ExportAvMinutes(_)
ExportAvMinutes(audioSlides) ==
    IF audioSlides = <<>> THEN Zero
    ELSE Plus(ExportAvMinutes(SubSeq(audioSlides, 1, Len(audioSlides) - 1)),
              audioSlides[Len(audioSlides)].audioDuration)

\* A number that is neither undefined nor 0.
TruthyNumber(a) == a # NoNumber /\ a[1] # 0

trimmedOutDurationSec(s) ==
    IF /\ s.audioMeta.isTrimmed
       /\ TruthyNumber(s.audioMeta.originalDuration)
       /\ TruthyNumber(s.audioMeta.trimmedDuration)
    THEN Minus(s.audioMeta.originalDuration, s.audioMeta.trimmedDuration)
    ELSE Zero

exportAudioCountCsv(slides) ==
    LET audioSlides == SelectSeq(slides, InAudioReport)
    IN  [report |-> "AudioCount",
         total |-> formatDurationForAudioExport(ExportAvMinutes(audioSlides)),
         rows |-> [i \in 1..Len(audioSlides) |->
                    <<audioSlides[i].id,
                      formatDurationForAudioExport(
                          audioSlides[i].audioDuration),
                      formatTrimmedDuration(
                          trimmedOutDurationSec(audioSlides[i]))>>]]

\* "Export Word Count (CSV)"
ExportWordCountClick ==
    /\ app.appPhase = "FINALIZE"
    /\ download' = exportWordCountCsv(app.slides)
    /\ UNCHANGED <<app, review, editor, modal, pending, edits, hook, upload,
                   transcribed>>

\* "Export Audio Count (CSV)"
ExportAudioCountClick ==
    /\ app.appPhase = "FINALIZE"
    /\ download' = exportAudioCountCsv(app.slides)
    /\ UNCHANGED <<app, review, editor, modal, pending, edits, hook, upload,
                   transcribed>>

-----------------------------------------------------------------------------
(* Specifications.                                                         *)

Init ==
    /\ app = InitialApp
    /\ review = NoReview
    /\ editor = NoEditor
    /\ modal = resetState
    /\ pending = {}
    /\ edits = 0
    /\ hook = NoHook
    /\ upload = InitialUpload
    /\ transcribed = {}
    /\ download = NoDownload

Next ==
    \/ HandleFileUpload
    \/ CompleteReview
    \/ HandleStartOver
    \/ SelectSlide
    \/ HandleNextSlide
    \/ HandlePreviousSlide
    \/ SetReviewQuestions
    \/ SetFinalExamQuestions
    \/ SetOst
    \/ SetTranscript
    \/ SetSelectedSource
    \/ SetMinutes
    \/ SetSeconds
    \/ FinalizeButton
    \/ CtrlEnter
    \/ FinalizeAndNextClick
    \/ DebouncedUpdate
    \/ OpenDiscardModal
    \/ CancelDiscard
    \/ SetDiscardReason
    \/ SetDiscardNote
    \/ HandleDiscardConfirm
    \/ HandleUndoDiscard
    \/ OpenAudioModal
    \/ HandleClose
    \/ HandleFileChange
    \/ HandleUpload
    \/ UploadSucceeds
    \/ UploadFails
    \/ HandleAccept

\* The application: upload, review, finalization, start over.
Spec == Init /\ [][Next]_vars

\* The application with the way back from finalization to review.
NextApp ==
    \/ Next
    \/ HandleGoBackToReview

SpecApp == Init /\ [][NextApp]_vars

\* The review of a deck of one slide, as handleFileUpload starts it.
AudioInit ==
    LET parsedSlides == <<createSlideObject(1, SampleOst, SampleTranscript)>>
    IN  /\ app = [InitialApp EXCEPT !.slides = parsedSlides,
                                    !.appPhase = "REVIEW"]
        /\ review = MountReview(parsedSlides, 0, 0)
        /\ editor = MountEditor(parsedSlides[1])
        /\ modal = resetState
        /\ pending = {}
        /\ edits = 0
        /\ hook = NoHook
        /\ upload = InitialUpload
        /\ transcribed = {}
        /\ download = NoDownload

NextAudio ==
    \/ SetSelectedSource
    \/ SetMinutes
    \/ SetSeconds
    \/ OpenAudioModal
    \/ HandleClose
    \/ HandleFileChange
    \/ HandleUpload
    \/ UploadSucceeds
    \/ UploadFails
    \/ HandleTranscribe
    \/ TranscribeSucceeds
    \/ TranscribeFails
    \/ ShowTrimming
    \/ ShowResult
    \/ HandleSegmentToggle
    \/ HandleTrim
    \/ TrimSucceeds
    \/ TrimFails
    \/ HandleAccept

\* The audio workflow of one slide's editor: upload, transcribe, trim,
\* accept, next to the source and duration inputs.
SpecAudio == AudioInit /\ [][NextAudio]_vars

CalcInit ==
    /\ app = InitialApp
    /\ review = NoReview
    /\ editor = NoEditor
    /\ modal = resetState
    /\ pending = {}
    /\ edits = 0
    /\ hook \in HookInputs
    /\ upload = InitialUpload
    /\ transcribed = {}
    /\ download = NoDownload

CalcNext == CallHook

\* The aggregation engine alone, over bounded slide collections.
SpecCalc == CalcInit /\ [][CalcNext]_vars

\* The phases of the application: the review without the audio workflow
\* (durations are typed), completion, the way back and start over.
NextPhases ==
    \/ HandleFileUpload
    \/ CompleteReview
    \/ HandleGoBackToReview
    \/ HandleStartOver
    \/ SelectSlide
    \/ HandleNextSlide
    \/ HandlePreviousSlide
    \/ SetReviewQuestions
    \/ SetFinalExamQuestions
    \/ SetOst
    \/ SetTranscript
    \/ SetSelectedSource
    \/ SetMinutes
    \/ SetSeconds
    \/ FinalizeButton
    \/ CtrlEnter
    \/ FinalizeAndNextClick
    \/ DebouncedUpdate
    \/ OpenDiscardModal
    \/ CancelDiscard
    \/ SetDiscardReason
    \/ SetDiscardNote
    \/ HandleDiscardConfirm
    \/ HandleUndoDiscard

SpecPhases == Init /\ [][NextPhases]_vars

\* The upload screen: a file is chosen and parsed.
NextUpload ==
    \/ UploadScreenFileChange
    \/ ParseSucceeds
    \/ ParseFails

SpecUpload == Init /\ [][NextUpload]_vars

\* A sheet whose Slide No column repeats a number: parseXlsx gives the two
\* rows the same id.
RepeatedNumberSheet ==
    [name |-> XlsxName, isZip |-> FALSE, header |-> AllColumns,
     rows |-> << [slideNo |-> <<"1">>, ost |-> <<"a">>, transcript |-> <<>>],
                 [slideNo |-> <<"1">>, ost |-> <<"b">>, transcript |-> <<>>],
                 [slideNo |-> <<"2">>, ost |-> <<"c">>, transcript |-> <<>>] >>]

PositionsInit ==
    LET parsedSlides == parseFile(RepeatedNumberSheet).slides
    IN  /\ app = [InitialApp EXCEPT !.slides = parsedSlides,
                                    !.appPhase = "REVIEW"]
        /\ review = MountReview(parsedSlides, 0, 0)
        /\ editor = MountEditor(parsedSlides[1])
        /\ modal = resetState
        /\ pending = {}
        /\ edits = 0
        /\ hook = NoHook
        /\ upload = InitialUpload
        /\ transcribed = {}
        /\ download = NoDownload

\* The review of a deck in which two positions carry the same id.
SpecPositions == PositionsInit /\ [][NextPhases]_vars

\* The slides of a completed review the exports are applied to: a slide
\* with a line break in its text and a trimmed upload of 90 s cut to 60 s,
\* and a slide with a typed duration of half a minute.
ExportTexts == {<<"a", "\n", "b", " ">>, <<"c">>}

TrimmedMeta ==
    [UploadedMeta("a.wav", "file-id", Num(90)) EXCEPT
        !.isTrimmed = TRUE, !.trimmedDuration = Num(60)]

ExportSlide(id, ost, source, discarded) ==
    [createSlideObject(id, ost, SampleTranscript) EXCEPT
        !.selectedSource = source,
        !.audioDuration = IF ost = <<"c">> THEN Rat(1, 2) ELSE Num(1),
        !.audioMeta = IF ost = <<"c">> THEN ManualMeta ELSE TrimmedMeta,
        !.isFinalized = ~discarded,
        !.isDiscarded = discarded,
        !.discardReason = IF discarded THEN "Other" ELSE "",
        !.discardedAt = IF discarded THEN "timestamp" ELSE ""]

\* What is chosen for one slide of a deck.
ExportChoices == [ost : ExportTexts, source : SourceType, discarded : BOOLEAN]

\* A deck of reviewed slides, the id of a slide being its position.
ExportDeck(choices) ==
    [i \in DOMAIN choices |->
        ExportSlide(i, choices[i].ost, choices[i].source,
                    choices[i].discarded)]

\* The FinalizationScreen of a deck of at most MaxExportSlides slides.
ExportInit ==
    /\ \E n \in 0..MaxExportSlides :
        \E choices \in [1..n -> ExportChoices] :
            LET slides == ExportDeck(choices)
            IN  /\ app = [appPhase |-> "FINALIZE", slides |-> slides,
                          reviewQuestions |-> 0, finalExamQuestions |-> 0]
                /\ hook = Props(SelectSeq(slides, NotDiscarded), 0, 0)
    /\ review = NoReview
    /\ editor = NoEditor
    /\ modal = resetState
    /\ pending = {}
    /\ edits = 0
    /\ upload = InitialUpload
    /\ transcribed = {}
    /\ download = NoDownload

NextExport ==
    \/ CallHook
    \/ ExportWordCountClick
    \/ ExportAudioCountClick

\* The FinalizationScreen of a completed review: its metrics and its exports.
SpecExport == ExportInit /\ [][NextExport]_vars

-----------------------------------------------------------------------------
(* The aggregation engine: properties of one call of the hook.             *)

Half == Rat(1, 2)

IsHalfMultiple(a) == Times(a, Num(2))[2] = 1

\* C1: roundedCpe is rawCpeHours rounded down to a half hour. Whenever
\* rawCpeHours is not negative, roundedCpe is a multiple of 0.5, is at most
\* rawCpeHours and is more than rawCpeHours - 0.5; raw 1.74 and raw 1.75
\* give 1.5 and raw 2.0 gives 2.0.
RoundingLaw ==
    (hook.called /\ Leq(Zero, hook.metrics.rawCpeHours)) =>
        LET raw == hook.metrics.rawCpeHours
            rounded == hook.metrics.roundedCpe
        IN  /\ IsHalfMultiple(rounded)
            /\ Leq(rounded, raw)
            /\ Less(Minus(raw, Half), rounded)
            /\ raw = Rat(174, 100) => rounded = Rat(3, 2)
            /\ raw = Rat(175, 100) => rounded = Rat(3, 2)
            /\ raw = Num(2) => rounded = Num(2)

\* A call whose rawCpeHours is 1.75, on the boundary of round-to-nearest.
RoundingLawWitness ==
    /\ hook.called
    /\ hook.metrics.rawCpeHours = Rat(175, 100)
    /\ hook.metrics.roundedCpe = Rat(3, 2)

\* The totals and the credit of a deck, as the engine computes them.
Credit(slides) ==
    LET m == useCpeCalculator(slides, hook.reviewQuestions,
                              hook.finalExamQuestions)
    IN  <<m.totalWords, m.totalAvMinutes, m.roundedCpe>>

\* Discarded slides with words and minutes, one per content source.
DiscardedProbes ==
    {HookSlide(FoxText, source, Num(30), TRUE) : source \in SourceType}

RemoveAt(seq, i) == SubSeq(seq, 1, i - 1) \o SubSeq(seq, i + 1, Len(seq))

\* C2: discarded slides do not count. Removing a discarded slide from the
\* deck, replacing it by another discarded slide, or adding a discarded slide
\* at either end, leaves totalWords, totalAvMinutes and roundedCpe as they are.
DiscardedDoNotCount ==
    hook.called =>
        LET credit == <<hook.metrics.totalWords, hook.metrics.totalAvMinutes,
                        hook.metrics.roundedCpe>>
        IN  /\ \A i \in 1..Len(hook.slides) :
                    hook.slides[i].isDiscarded =>
                        /\ Credit(RemoveAt(hook.slides, i)) = credit
                        /\ \A other \in DiscardedProbes :
                            Credit([hook.slides EXCEPT ![i] = other]) = credit
            /\ \A added \in DiscardedProbes :
                    /\ Credit(Append(hook.slides, added)) = credit
                    /\ Credit(<<added>> \o hook.slides) = credit

\* A call on a counted slide next to a discarded slide that has words and
\* minutes and the source Both.
DiscardedDoNotCountWitness ==
    /\ hook.called
    /\ Len(hook.slides) = 2
    /\ ~hook.slides[1].isDiscarded
    /\ hook.slides[1].selectedSource = BOTH
    /\ hook.slides[2] = HookSlide(FoxText, BOTH, Num(30), TRUE)
    /\ hook.metrics.totalWords = 2
    /\ hook.metrics.totalAvMinutes = Num(30)

WordContribution(slide) ==
    IF slide.selectedSource \in {OST, BOTH}
    THEN getWordCount(slide.ost) ELSE 0

TimeContribution(slide) ==
    IF slide.selectedSource \in {AUDIO, BOTH}
    THEN slide.audioDuration ELSE Zero

RECURSIVE SumOfContributions(_)
SumOfContributions(slides) ==
    IF slides = <<>> THEN <<0, Zero>>
    ELSE LET rest == SumOfContributions(Tail(slides))
             slide == Head(slides)
         IN  IF slide.isDiscarded THEN rest
             ELSE <<WordContribution(slide) + rest[1],
                    Plus(TimeContribution(slide), rest[2])>>

WithTranscript(slide, transcript) == [slide EXCEPT !.transcript = transcript]

\* C8: contributions per content source. A slide that is not discarded adds
\* the words of its on-screen text when its source is OST or Both, and its
\* narration minutes when its source is Audio or Both, and nothing else;
\* totalWords and totalAvMinutes are the sums over the slides that are not
\* discarded, and the transcript never adds words.
ContributionsBySource ==
    hook.called =>
        /\ <<hook.metrics.totalWords, hook.metrics.totalAvMinutes>>
                = SumOfContributions(hook.slides)
        /\ \A transcript \in {<<>>, FoxText} :
            LET m == useCpeCalculator(
                        [i \in 1..Len(hook.slides) |->
                            WithTranscript(hook.slides[i], transcript)],
                        hook.reviewQuestions, hook.finalExamQuestions)
            IN  /\ m.totalWords = hook.metrics.totalWords
                /\ m.totalAvMinutes = hook.metrics.totalAvMinutes

\* A call on a Both slide and an Audio slide, each with four words of
\* on-screen text and 30 minutes: 4 words and 60 minutes.
ContributionsBySourceWitness ==
    /\ hook.called
    /\ hook.slides = <<HookSlide(FoxText, BOTH, Num(30), FALSE),
                       HookSlide(FoxText, AUDIO, Num(30), FALSE)>>
    /\ hook.metrics.totalWords = 4
    /\ hook.metrics.totalAvMinutes = Num(60)

\* C9: the credit formula. totalQuestions is the sum of the two question
\* counts and rawCpeHours = (totalWords/180 + totalAvMinutes
\* + 1.85 * totalQuestions) / 60. One Audio slide of 90 minutes with 10 review
\* and 5 final-exam questions gives 117.75 credit minutes, rawCpeHours 1.9625
\* and roundedCpe 1.5; one OST slide of 4 words without questions gives
\* roundedCpe 0.
CreditFormula ==
    hook.called =>
        LET m == hook.metrics
            minutes == Plus(Plus(Rat(m.totalWords, 180), m.totalAvMinutes),
                            Rat(185 * m.totalQuestions, 100))
        IN  /\ m.totalQuestions
                    = hook.reviewQuestions + hook.finalExamQuestions
            /\ Plus(Plus(m.wordsCpe, m.avCpe), m.questionsCpe) = minutes
            /\ Times(m.rawCpeHours, Num(60)) = minutes
            /\ (/\ hook.slides = <<HookSlide(<<>>, AUDIO, Num(90), FALSE)>>
                /\ hook.reviewQuestions = 10
                /\ hook.finalExamQuestions = 5)
                    => /\ minutes = Rat(11775, 100)
                       /\ m.rawCpeHours = Rat(19625, 10000)
                       /\ m.roundedCpe = Rat(3, 2)
            /\ (/\ Len(hook.slides) = 1
                /\ hook.slides[1].ost = FoxText
                /\ hook.slides[1].selectedSource = OST
                /\ ~hook.slides[1].isDiscarded
                /\ m.totalQuestions = 0)
                    => /\ m.totalWords = 4
                       /\ m.roundedCpe = Zero

\* The call on one Audio slide of 90 minutes with 10 + 5 questions.
CreditFormulaWitness ==
    /\ hook.called
    /\ hook.slides = <<HookSlide(<<>>, AUDIO, Num(90), FALSE)>>
    /\ hook.metrics.totalQuestions = 15
    /\ hook.metrics.questionsCpe = Rat(2775, 100)
    /\ hook.metrics.rawCpeHours = Rat(19625, 10000)

Rounded(slides, reviewQuestions, finalExamQuestions) ==
    useCpeCalculator(slides, reviewQuestions, finalExamQuestions).roundedCpe

OneMoreWord(slide) == [slide EXCEPT !.ost = @ \o <<" ", "w">>]

Longer(slide, minutes) ==
    [slide EXCEPT !.audioDuration = Plus(@, minutes)]

MoreMinutes == {Rat(1, 180), Num(30)}

MoreQuestions == {1, 2}

\* C10: roundedCpe is monotone. An input that differs from another only by
\* more words in one slide, more narration minutes in one slide, or more
\* questions has a roundedCpe that is not smaller.
Monotone ==
    hook.called =>
        LET rq == hook.reviewQuestions
            fq == hook.finalExamQuestions
            rounded == hook.metrics.roundedCpe
        IN  /\ \A i \in 1..Len(hook.slides) :
                /\ Leq(rounded,
                       Rounded([hook.slides EXCEPT ![i] = OneMoreWord(@)],
                               rq, fq))
                /\ \A minutes \in MoreMinutes :
                    Leq(rounded,
                        Rounded([hook.slides EXCEPT
                                    ![i] = Longer(@, minutes)], rq, fq))
            /\ \A more \in MoreQuestions :
                /\ Leq(rounded, Rounded(hook.slides, rq + more, fq))
                /\ Leq(rounded, Rounded(hook.slides, rq, fq + more))

\* A call whose credit is 0 and becomes 0.5 with one more word, and a
\* call whose credit becomes larger with more minutes or more questions.
MonotoneWitness ==
    /\ hook.called
    /\ Len(hook.slides) = 1
    /\ hook.metrics.totalWords = 1
    /\ hook.metrics.roundedCpe = Zero
    /\ Rounded(<<OneMoreWord(hook.slides[1])>>, 0, 0) = Half
    /\ Rounded(<<Longer(hook.slides[1], Num(30))>>, 0, 0) = Half
    /\ Rounded(hook.slides, 1, 0) = Half

-----------------------------------------------------------------------------
(* The slide ruling state machine: properties of the review.               *)

\* The stored record of a slide.
Stored(slides, id) == slides[FindIndex(slides, id)]

NeedsDuration(source) == source \in {AUDIO, BOTH}

FinalizeStep == FinalizeButton \/ CtrlEnter \/ FinalizeAndNextClick

\* C3: the finalization guard. Finalize on a Draft slide whose source is
\* Audio or Both and whose duration is 0 sets the validation error and
\* changes neither the stored slides nor the finalized flag; with a duration
\* above 0, or with the source OST at any duration, the stored record becomes
\* finalized with the editor's values.
FinalizeGuard ==
    [][(/\ FinalizeStep
        /\ ~editor.isFinalized
        /\ ~ActiveSlide.isFinalized
        /\ ~ActiveSlide.isDiscarded) =>
            IF NeedsDuration(editor.selectedSource)
                    /\ editor.audioDuration = Zero
            THEN /\ editor'.finalizeError # ""
                 /\ ~editor'.isFinalized
                 /\ review' = review
            ELSE LET stored == Stored(review'.slides, review.activeSlideId)
                 IN  /\ stored.isFinalized
                     /\ stored.selectedSource = editor.selectedSource
                     /\ stored.audioDuration = editor.audioDuration
                     /\ stored.ost = editor.ost]_vars

\* A first slide finalized with the source Audio and a duration above 0, and
\* a second slide whose finalize was rejected for its duration of 0.
FinalizeGuardWitness ==
    /\ app.appPhase = "REVIEW"
    /\ Len(review.slides) = 2
    /\ review.slides[1].isFinalized
    /\ review.slides[1].selectedSource = AUDIO
    /\ Less(Zero, review.slides[1].audioDuration)
    /\ editor.mounted
    /\ editor.key = review.slides[2].id
    /\ editor.finalizeError # ""
    /\ NeedsDuration(editor.selectedSource)
    /\ editor.audioDuration = Zero
    /\ ~editor.isFinalized
    /\ ~review.slides[2].isFinalized

\* C4: no stored slide is finalized with the source Audio or Both and a
\* narration duration of 0.
NoFinalizedAudioWithoutDuration ==
    \A i \in 1..Len(review.slides) :
        ~(/\ review.slides[i].isFinalized
          /\ NeedsDuration(review.slides[i].selectedSource)
          /\ review.slides[i].audioDuration = Zero)

RulingFields(slide) ==
    <<slide.ost, slide.transcript, slide.selectedSource, slide.audioDuration,
      slide.audioMeta>>

\* A step that leaves the slide at position i finalized and not discarded.
StaysFinalized(i) ==
    /\ i \in 1..Len(review'.slides)
    /\ review'.slides[i].id = review.slides[i].id
    /\ review.slides[i].isFinalized /\ ~review.slides[i].isDiscarded
    /\ review'.slides[i].isFinalized /\ ~review'.slides[i].isDiscarded

\* C5: a finalized slide is locked. As long as a stored slide stays finalized
\* and is not discarded, no step changes its on-screen text, transcript,
\* content source, narration duration or audio attachment.
FinalizedFieldsFrozen ==
    [][\A i \in 1..Len(review.slides) :
            StaysFinalized(i) =>
                RulingFields(review'.slides[i])
                    = RulingFields(review.slides[i])]_vars

\* C6: undo discard gives a Draft slide. After undo discard the stored slide
\* is neither discarded nor finalized, so the review cannot be completed
\* before the slide is finalized again.
UndoDiscardGivesDraft ==
    [][HandleUndoDiscard =>
            LET stored == Stored(review'.slides, review.activeSlideId)
            IN  /\ ~stored.isDiscarded
                /\ ~stored.isFinalized
                /\ ~allSlidesFinalized(review'.slides)]_vars

\* C7: discard requires a reason. Confirming a discard with an empty reason
\* changes neither the stored slides nor the focus; with a reason of the
\* fixed set the stored record becomes discarded with that reason, and with
\* "Other" it does so whatever the note, the empty note included.
DiscardNeedsReason ==
    [][HandleDiscardConfirm =>
            IF editor.discardReason = ""
            THEN review' = review
            ELSE LET stored == Stored(review'.slides, review.activeSlideId)
                 IN  /\ editor.discardReason \in DISCARD_REASONS
                     /\ stored.isDiscarded
                     /\ stored.discardReason = editor.discardReason
                     /\ editor.discardReason = "Other" =>
                            stored.discardNote = editor.discardNote]_vars

\* A first slide discarded with the reason "Other" and an empty note, and
\* the discard dialog open on the second slide with no reason selected.
DiscardNeedsReasonWitness ==
    /\ app.appPhase = "REVIEW"
    /\ Len(review.slides) = 2
    /\ review.slides[1].isDiscarded
    /\ review.slides[1].discardReason = "Other"
    /\ review.slides[1].discardNote = ""
    /\ DiscardModalShown
    /\ editor.key = review.slides[2].id
    /\ editor.discardReason = ""
    /\ ~review.slides[2].isDiscarded

IsNumber(a) == a[1] \in Int /\ a[2] \in Nat /\ a[2] > 0

MetricsFields ==
    {"totalWords", "totalAvMinutes", "totalQuestions", "wordsCpe", "avCpe",
     "questionsCpe", "rawCpeHours", "roundedCpe"}

\* C12: the engine has no error outcome. Every call returns metrics with a
\* number in every field; for no slides and no questions every total is 0;
\* and roundedCpe is never below 0, also when rawCpeHours is.
AlwaysMetrics ==
    hook.called =>
        LET m == hook.metrics
        IN  /\ DOMAIN m = MetricsFields
            /\ m.totalWords \in Int
            /\ m.totalQuestions \in Int
            /\ \A field \in MetricsFields \ {"totalWords", "totalQuestions"} :
                    IsNumber(m[field])
            /\ Leq(Zero, m.roundedCpe)
            /\ (/\ hook.slides = <<>>
                /\ hook.reviewQuestions = 0
                /\ hook.finalExamQuestions = 0)
                    => /\ m.totalWords = 0
                       /\ m.totalQuestions = 0
                       /\ \A field \in MetricsFields
                                \ {"totalWords", "totalQuestions"} :
                            m[field] = Zero

\* A call whose rawCpeHours is below 0 and whose roundedCpe is 0.
AlwaysMetricsWitness ==
    /\ hook.called
    /\ Less(hook.metrics.rawCpeHours, Zero)
    /\ hook.metrics.roundedCpe = Zero

\* Unlock to Edit, or Ctrl+Enter, on a finalized slide.
UnlockStep ==
    /\ FinalizeButton \/ CtrlEnter
    /\ editor.isFinalized
    /\ ActiveSlide.isFinalized
    /\ ~ActiveSlide.isDiscarded

\* C13: unlock always succeeds and changes only the finalized flag. After
\* an unlock the stored record is not finalized, its on-screen text,
\* transcript, content source, duration and attachment are those stored
\* before the unlock, and the editor accepts field edits again.
UnlockKeepsFields ==
    [][UnlockStep =>
            LET stored == Stored(review'.slides, review.activeSlideId)
            IN  /\ ~stored.isFinalized
                /\ RulingFields(stored) = RulingFields(ActiveSlide)
                /\ ~editor'.isFinalized
                /\ editor'.finalizeError = ""]_vars

-----------------------------------------------------------------------------
(* The audio workflow: properties of the remote calls.                     *)

CallOutstanding == pending # {} /\ pending' = pending

\* C15: nothing is edited while a call is outstanding. As long as an upload,
\* transcribe or trim call of the slide has not returned, the workflow stays
\* open, the editor's minutes, seconds, duration and attachment stay as they
\* are, and the stored slides do not change (no finalize, no discard).
NoEditWhileOutstanding ==
    [][CallOutstanding =>
            /\ editor'.isAudioModalOpen = editor.isAudioModalOpen
            /\ editor'.minutes = editor.minutes
            /\ editor'.seconds = editor.seconds
            /\ editor'.audioDuration = editor.audioDuration
            /\ editor'.audioMeta = editor.audioMeta
            /\ review'.slides = review.slides]_vars

-----------------------------------------------------------------------------
(* Ingestion: which rows become slides.                                    *)

\* The file of the pending parse is a spreadsheet or a CSV file with an OST
\* or a transcript column.
SheetParsePending ==
    /\ upload.isLoading
    /\ upload.file.name \in {XlsxName, CsvName}
    /\ upload.file.header.ost \/ upload.file.header.transcript

HasSlideNumber(row) ==
    ~parseInt(row.slideNo).isNaN /\ parseInt(row.slideNo).value > 0

HasContent(row) == Trim(row.ost) # <<>> \/ Trim(row.transcript) # <<>>

RowCounts(row) == HasSlideNumber(row) \/ HasContent(row)

\* C16: a row of a spreadsheet or CSV file is dropped exactly when it has no
\* slide number that parses as a positive integer and both its text cells
\* are blank after trimming; every other row gives one slide, in input order
\* (the slides' texts are the texts of those rows, one after the other).
RowsDroppedOnlyWhenEmpty ==
    [][SheetParsePending =>
        LET expected == SelectSeq(upload.file.rows, RowCounts)
        IN  /\ Len(app'.slides) = Len(expected)
            /\ \A i \in 1..Len(expected) :
                /\ app'.slides[i].ost = expected[i].ost
                /\ app'.slides[i].transcript = expected[i].transcript]_vars

\* The file's extension is none of xlsx, xls, csv, pptx.
UnsupportedExtension(file) ==
    file.name \notin {XlsxName, XlsName, CsvName, PptxName}

\* A spreadsheet or CSV file without an OST and without a transcript column.
NoTextColumn(file) ==
    /\ file.name \in {XlsxName, XlsName, CsvName}
    /\ ~file.header.ost
    /\ ~file.header.transcript

\* C17: when ingestion fails (unsupported extension, or no OST and no
\* transcript column), nothing is imported: after the parse has settled the
\* application is still in the UPLOAD phase, its slide collection is empty,
\* no review has been mounted and the upload screen shows an error message.
FailedIngestionImportsNothing ==
    [][(/\ upload.isLoading
        /\ UnsupportedExtension(upload.file) \/ NoTextColumn(upload.file)) =>
            /\ app'.appPhase = "UPLOAD"
            /\ app'.slides = <<>>
            /\ review' = NoReview
            /\ ~upload'.isLoading
            /\ upload'.error # ""]_vars

\* A file named d.txt was chosen and refused: the message is shown and
\* nothing was imported.
FailedIngestionWitness ==
    /\ upload.fileName = TxtName
    /\ upload.error = "Unsupported file type."
    /\ ~upload.isLoading
    /\ app = InitialApp

-----------------------------------------------------------------------------
(* The phases of the application.                                          *)

NoActiveDraft(slides) ==
    \A i \in 1..Len(slides) : slides[i].isDiscarded \/ slides[i].isFinalized

\* C18: in the FINALIZE phase no active slide is a Draft. Every slide of the
\* application's collection is discarded or finalized, and the slides the
\* final metrics were computed from are all finalized, whatever the reviewer
\* did before, going back to the review and completing it again included.
FinalizePhaseHasNoDraft ==
    app.appPhase = "FINALIZE" =>
        /\ NoActiveDraft(app.slides)
        /\ hook.called
        /\ \A i \in 1..Len(hook.slides) :
            hook.slides[i].isFinalized /\ ~hook.slides[i].isDiscarded

\* The review of two slides was completed with one slide discarded while it
\* was a Draft and the other finalized.
FinalizePhaseWitness ==
    /\ app.appPhase = "FINALIZE"
    /\ Len(app.slides) = 2
    /\ \E i, j \in 1..2 :
        /\ app.slides[i].isDiscarded /\ ~app.slides[i].isFinalized
        /\ app.slides[j].isFinalized /\ ~app.slides[j].isDiscarded
    /\ Len(hook.slides) = 1

-----------------------------------------------------------------------------
(* What finalize and discard write.                                        *)

\* A finalize step on a slide the editor shows as Draft that the duration
\* guard lets through.
SuccessfulFinalize ==
    /\ FinalizeStep
    /\ ~editor.isFinalized
    /\ ~(NeedsDuration(editor.selectedSource) /\ editor.audioDuration = Zero)

\* C19: a successful finalize stores the editor's current text, transcript,
\* source, duration and attachment, edits never stored before included, marks
\* the record finalized and leaves its id and its discard fields as they
\* were; no other slide changes.
FinalizeSnapshot ==
    [][SuccessfulFinalize =>
        LET before == ActiveSlide
            stored == Stored(review'.slides, review.activeSlideId)
        IN  /\ stored.isFinalized
            /\ stored.ost = editor.ost
            /\ stored.transcript = editor.transcript
            /\ stored.selectedSource = editor.selectedSource
            /\ stored.audioDuration = editor.audioDuration
            /\ stored.audioMeta = editor.audioMeta
            /\ stored.id = before.id
            /\ stored.isDiscarded = before.isDiscarded
            /\ stored.discardReason = before.discardReason
            /\ stored.discardNote = before.discardNote
            /\ stored.discardedAt = before.discardedAt
            /\ stored.undoAt = before.undoAt
            /\ Len(review'.slides) = Len(review.slides)
            /\ \A i \in 1..Len(review.slides) :
                review.slides[i].id # before.id =>
                    review'.slides[i] = review.slides[i]]_vars

\* A slide finalized with a text and a transcript typed in the editor, both
\* different from the imported ones.
FinalizeSnapshotWitness ==
    /\ app.appPhase = "REVIEW"
    /\ \E i \in 1..Len(review.slides) :
        /\ review.slides[i].isFinalized
        /\ ~review.slides[i].isDiscarded
        /\ review.slides[i].ost # SampleOst
        /\ review.slides[i].transcript # SampleTranscript

\* C20: a confirmed discard with a reason succeeds whether the slide is Draft
\* or Finalized and whatever its source and duration are (the duration guard
\* of finalize does not apply): the stored record is discarded, carries the
\* reason, and its text, transcript, source, duration and attachment are the
\* editor's values at that moment; its id is the same and the dialog closes.
DiscardSnapshot ==
    [][(HandleDiscardConfirm /\ editor.discardReason # "") =>
        LET before == ActiveSlide
            stored == Stored(review'.slides, review.activeSlideId)
        IN  /\ stored.isDiscarded
            /\ stored.discardReason = editor.discardReason
            /\ stored.id = before.id
            /\ stored.isFinalized = before.isFinalized
            /\ stored.ost = editor.ost
            /\ stored.transcript = editor.transcript
            /\ stored.selectedSource = editor.selectedSource
            /\ stored.audioDuration = editor.audioDuration
            /\ stored.audioMeta = editor.audioMeta
            /\ ~DiscardModalShown']_vars

\* The first slide was discarded after it had been finalized, the second
\* while it was a Draft.
DiscardSnapshotWitness ==
    /\ app.appPhase = "REVIEW"
    /\ Len(review.slides) = 2
    /\ review.slides[1].isDiscarded
    /\ review.slides[1].isFinalized
    /\ review.slides[1].discardReason # ""
    /\ review.slides[2].isDiscarded
    /\ ~review.slides[2].isFinalized
    /\ review.slides[2].discardReason # ""

-----------------------------------------------------------------------------
(* Discard: reasons, notes, focus.                                         *)

\* C21: a slide that is not discarded carries no discard reason and no
\* discard note (undo discard clears them).
UndiscardedHasNoReason ==
    \A i \in 1..Len(review.slides) :
        ~review.slides[i].isDiscarded =>
            /\ review.slides[i].discardReason = ""
            /\ review.slides[i].discardNote = ""

\* C22: after a successful discard the focus is on no slide or on a slide
\* that is not discarded.
FocusAfterDiscard ==
    [][(HandleDiscardConfirm /\ editor.discardReason # "") =>
        \/ review'.activeSlideId = Null
        \/ ~Stored(review'.slides, review'.activeSlideId).isDiscarded]_vars

DiscardedRecordFrozen ==
    [][\A i \in 1..Len(review.slides) :
        (/\ i <= Len(review'.slides)
         /\ review'.slides[i].id = review.slides[i].id
         /\ review.slides[i].isDiscarded
         /\ review'.slides[i].isDiscarded) =>
            review'.slides[i] = review.slides[i]]_vars

-----------------------------------------------------------------------------
(* The audio workflow: order of the remote calls, attachment, durations.   *)

\* C25: a trim request is issued only for a file whose transcribe call has
\* returned successfully: every trim call a step adds to the outstanding
\* calls names a file id in the record of transcribed files.
TrimOnlyAfterTranscribe ==
    [][\A call \in pending' \ pending :
        call.op = "trim" => call.file \in transcribed]_vars

\* C26: the attachment follows the duration. A hand edit of minutes or
\* seconds leaves the editor with exactly the manual placeholder; accepting a
\* duration leaves it with exactly the workflow's metadata marked as
\* uploaded and with the accepted duration (seconds, held in minutes); an
\* attachment marked manual, in the editor or stored, is the placeholder.
AttachmentFollowsDuration ==
    [][/\ (SetMinutes \/ SetSeconds) => editor'.audioMeta = ManualMeta
       /\ HandleAccept =>
            /\ editor'.audioMeta = [modal.audioMeta EXCEPT !.source = "upload"]
            /\ editor'.audioDuration = Over(modal.currentDuration, 60)
       /\ (editor'.mounted /\ editor'.audioMeta.source = "manual") =>
            editor'.audioMeta = ManualMeta
       /\ \A i \in 1..Len(review'.slides) :
            review'.slides[i].audioMeta.source = "manual" =>
                review'.slides[i].audioMeta = ManualMeta]_vars

TrimmedIsShorter(meta) ==
    meta.isTrimmed => Less(meta.trimmedDuration, meta.originalDuration)

\* C27: an attachment that has a trimmed duration has it strictly smaller
\* than its original duration, in the workflow, in the editor and in every
\* stored slide.
TrimmedShorterThanOriginal ==
    /\ TrimmedIsShorter(modal.audioMeta)
    /\ editor.mounted => TrimmedIsShorter(editor.audioMeta)
    /\ \A i \in 1..Len(review.slides) :
        TrimmedIsShorter(review.slides[i].audioMeta)

\* C28: the narration duration of every stored slide is non-negative, and so
\* is the totalAvMinutes the review's statistics show.
DurationNeverNegative ==
    /\ \A i \in 1..Len(review.slides) :
        Leq(Zero, review.slides[i].audioDuration)
    /\ Leq(Zero, StatsPanel(review.slides, review.reviewQuestions,
                            review.finalExamQuestions).metrics.totalAvMinutes)

-----------------------------------------------------------------------------
(* Question counts and word counts.                                        *)

\* C29: the two question counts are non-negative in the review and in the
\* application, and the totalQuestions of the statistics is the sum of the
\* two counts with a negative count taken as 0, hence never negative.
QuestionsNeverNegative ==
    LET atLeastZero(n) == IF n < 0 THEN 0 ELSE n
    IN  /\ review.reviewQuestions >= 0
        /\ review.finalExamQuestions >= 0
        /\ app.reviewQuestions >= 0
        /\ app.finalExamQuestions >= 0
        /\ StatsPanel(review.slides, review.reviewQuestions,
                      review.finalExamQuestions).metrics.totalQuestions
            = atLeastZero(review.reviewQuestions)
                + atLeastZero(review.finalExamQuestions)

\* The number of maximal runs of non-whitespace characters of a text.
Runs(text) ==
    Cardinality({i \in 1..Len(text) :
                    /\ ~IsSpace(text[i])
                    /\ i = 1 \/ IsSpace(text[i - 1])})

RECURSIVE SumOfRuns(_)
SumOfRuns(segments) ==
    IF segments = <<>> THEN 0
    ELSE Runs(Head(segments)) + SumOfRuns(Tail(segments))

\* C30: every word count is the number of maximal runs of non-whitespace
\* characters: the counts of the editor's text and transcript, the counts the
\* engine takes from the slides, and the word count the audio workflow
\* records for a transcription (the sum over its segments).
WordCountIsRuns ==
    /\ editor.mounted =>
        /\ getWordCount(editor.ost) = Runs(editor.ost)
        /\ getWordCount(editor.transcript) = Runs(editor.transcript)
    /\ \A i \in 1..Len(hook.slides) :
        getWordCount(hook.slides[i].ost) = Runs(hook.slides[i].ost)
    /\ modal.audioMeta.transcription.present =>
        modal.audioMeta.transcription.wordCount
            = SumOfRuns(modal.audioMeta.transcription.segments)

\* The ids of the rows of a report, in the order of the rows.
RowIds(rows) == [k \in 1..Len(rows) |-> rows[k][1]]

\* The positions of the collection a report must show.
WordCountPositions ==
    {i \in 1..Len(app.slides) :
        /\ ~app.slides[i].isDiscarded
        /\ app.slides[i].selectedSource \in {OST, BOTH}}

AudioPositions ==
    {i \in 1..Len(app.slides) :
        /\ ~app.slides[i].isDiscarded
        /\ app.slides[i].selectedSource \in {AUDIO, BOTH}}

\* ids is the increasing enumeration of positions (ids are positions here).
ListsExactly(ids, positions) ==
    /\ {ids[k] : k \in 1..Len(ids)} = positions
    /\ \A k \in 1..Len(ids) - 1 : ids[k] < ids[k + 1]

\* C31: the word-count report lists exactly the non-discarded slides whose
\* source is OST or Both and the audio report exactly the non-discarded
\* slides whose source is Audio or Both, each once and in collection order;
\* no discarded slide is in either report.
ReportsListActiveSlides ==
    /\ download.report = "WordCount" =>
        ListsExactly(RowIds(download.rows), WordCountPositions)
    /\ download.report = "AudioCount" =>
        ListsExactly(RowIds(download.rows), AudioPositions)
    /\ download.report # "none" =>
        \A k \in 1..Len(download.rows) :
            ~app.slides[download.rows[k][1]].isDiscarded

\* A word-count report of a deck that has a discarded OST slide, a listed
\* slide and a slide left out for its source.
ReportsListActiveSlidesWitness ==
    /\ download.report = "WordCount"
    /\ Len(download.rows) >= 1
    /\ \E i, j \in 1..Len(app.slides) :
        /\ app.slides[i].isDiscarded
        /\ app.slides[i].selectedSource = OST
        /\ ~app.slides[j].isDiscarded
        /\ app.slides[j].selectedSource = AUDIO

\* Active/Draft as ingestion leaves a slide.
IngestedDraft(slide) ==
    /\ ~slide.isFinalized
    /\ ~slide.isDiscarded
    /\ slide.audioDuration = Zero
    /\ slide.audioMeta.source = "manual"
    /\ slide.audioMeta.fileId = ""
    /\ slide.audioMeta.fileName = ""
    /\ slide.audioMeta.originalDuration = NoNumber
    /\ ~slide.audioMeta.transcription.present
    /\ ~slide.audioMeta.isTrimmed
    /\ slide.audioMeta.trimmedDuration = NoNumber

AllIngestedDraft(slides) == \A i \in 1..Len(slides) : IngestedDraft(slides[i])

\* C32: every slide ingestion produces is Active/Draft: not finalized, not
\* discarded, duration 0, a manual attachment without upload fields. It
\* holds for what the parser of each format resolves with, and for the deck
\* the review starts with.
IngestedSlidesAreDraft ==
    /\ upload.isLoading => AllIngestedDraft(parseFile(upload.file).slides)
    /\ app.appPhase = "REVIEW" =>
        /\ AllIngestedDraft(app.slides)
        /\ AllIngestedDraft(review.slides)

\* A parsed deck of two slides has been handed to the review.
IngestedSlidesAreDraftWitness ==
    /\ app.appPhase = "REVIEW"
    /\ Len(review.slides) = 2
    /\ ~upload.isLoading

\* C33: a step that changes the stored collection of the review (finalize,
\* unlock, discard, undo discard, the re-sync of a finalized slide) changes
\* only the record at the position of the focused slide: the record at
\* every other position is the same before and after, also when two
\* positions carry the same id.
UpdateTouchesOnePosition ==
    [][(/\ app.appPhase = "REVIEW"
        /\ app'.appPhase = "REVIEW"
        /\ editor.mounted
        /\ review'.slides # review.slides)
       => /\ Len(review'.slides) = Len(review.slides)
          /\ \A i \in 1..Len(review.slides) :
                i # ActiveSlideIndex => review'.slides[i] = review.slides[i]]_vars

IsDraft(slide) == ~slide.isFinalized /\ ~slide.isDiscarded

\* The editor shows the stored values of the slide.
EditorShowsStored(ed, slide) ==
    /\ ed.ost = slide.ost
    /\ ed.transcript = slide.transcript
    /\ ed.selectedSource = slide.selectedSource
    /\ ed.audioDuration = slide.audioDuration
    /\ ed.audioMeta = slide.audioMeta
    /\ ed.isFinalized = slide.isFinalized

\* C34: edits of a Draft slide are held by the editor only. The stored
\* record of a Draft slide changes only in a step that finalizes or discards
\* it with the editor's values, and whenever the focus moves to another
\* slide the editor shows the stored values of the slide now focused.
DraftEditsStayInEditor ==
    [][(app.appPhase = "REVIEW" /\ app'.appPhase = "REVIEW")
       => /\ Len(review'.slides) = Len(review.slides)
          /\ \A i \in 1..Len(review.slides) :
                (IsDraft(review.slides[i])
                    /\ review'.slides[i] # review.slides[i])
                => /\ i = ActiveSlideIndex
                   /\ editor.mounted
                   /\ \/ /\ ~FinalizeRejected(editor)
                         /\ review'.slides[i]
                                = FinalizedSlide(review.slides[i], editor)
                      \/ /\ ~DiscardRejected(editor)
                         /\ review'.slides[i]
                                = DiscardedSlide(review.slides[i], editor)
          /\ (review'.activeSlideId # review.activeSlideId
                /\ review'.activeSlideId # Null)
             => /\ editor'.mounted
                /\ EditorShowsStored(editor',
                        Stored(review'.slides, review'.activeSlideId))]_vars

\* Values have been typed or selected, no slide has been finalized or
\* discarded, and slide 2 is focused: every stored record is as parsed and
\* the editor shows slide 2 as stored.
DraftEditsStayInEditorWitness ==
    /\ app.appPhase = "REVIEW"
    /\ edits >= 1
    /\ review.reviewQuestions = 0
    /\ review.finalExamQuestions = 0
    /\ review.slides \in ParsedDecks
    /\ review.activeSlideId = 2
    /\ editor = MountEditor(review.slides[2])

\* A step of the reviewer: every action of the review but the firing of the
\* debounce timer.
ReviewerStep ==
    \/ HandleFileUpload
    \/ CompleteReview
    \/ HandleGoBackToReview
    \/ HandleStartOver
    \/ SelectSlide
    \/ HandleNextSlide
    \/ HandlePreviousSlide
    \/ SetReviewQuestions
    \/ SetFinalExamQuestions
    \/ SetOst
    \/ SetTranscript
    \/ SetSelectedSource
    \/ SetMinutes
    \/ SetSeconds
    \/ FinalizeButton
    \/ CtrlEnter
    \/ FinalizeAndNextClick
    \/ OpenDiscardModal
    \/ CancelDiscard
    \/ SetDiscardReason
    \/ SetDiscardNote
    \/ HandleDiscardConfirm
    \/ HandleUndoDiscard

\* The review with a timer that fires when it is due.
SpecSync == Init /\ [][NextPhases]_vars /\ WF_vars(DebouncedUpdate)

\* A re-sync of the collection is due.
\* C35: when the reviewer performs no further action, the debounced re-sync
\* of a finalized slide eventually stops: from some state on no re-sync of
\* the collection is issued.
SyncEventuallyStops == <>[][~ReviewerStep]_vars => <>[][~DebouncedUpdate]_vars

\* The attachment carries a file id the upload endpoint handed out and an
\* original duration it reported.
CarriesUploadedFile(meta) ==
    /\ \E k \in 1..Len(FileIds) : meta.fileId = FileIds[k]
    /\ meta.originalDuration \in RemoteDurations

\* The duration (minutes) is the file's original or trimmed duration.
DurationOfFile(meta, audioDuration) ==
    \/ audioDuration = Over(meta.originalDuration, 60)
    \/ meta.isTrimmed /\ audioDuration = Over(meta.trimmedDuration, 60)

\* C36: in every reachable state an attachment whose origin is uploaded, in
\* the editor or in the stored collection, carries the file id and the
\* original duration of a successful upload, and the duration held with it
\* is that file's original or trimmed duration.
UploadedAttachmentIsOfFile ==
    /\ (editor.mounted /\ editor.audioMeta.source = "upload") =>
        /\ CarriesUploadedFile(editor.audioMeta)
        /\ DurationOfFile(editor.audioMeta, editor.audioDuration)
    /\ \A i \in 1..Len(review.slides) :
        review.slides[i].audioMeta.source = "upload" =>
            /\ CarriesUploadedFile(review.slides[i].audioMeta)
            /\ DurationOfFile(review.slides[i].audioMeta,
                              review.slides[i].audioDuration)

\* The workflow as a reset leaves it: the UPLOAD view, empty metadata,
\* duration 0, no selected segments.
IsReset(md) ==
    /\ md.view = "UPLOAD"
    /\ md.audioMeta = EmptyMeta
    /\ md.currentDuration = Zero
    /\ md.segmentsToDelete = {}

\* A remote call returns: it leaves the set of outstanding calls.
ResponseArrives == pending' # pending /\ pending' \subseteq pending

\* C37: closing or reopening the audio workflow leaves it reset, and a
\* response that arrives while it is reset (the call was issued before the
\* reset: issuing a call leaves the UPLOAD view) changes neither its view
\* nor its metadata nor its duration.
ResetSurvivesResponses ==
    [][/\ (HandleClose \/ OpenAudioModal) => IsReset(modal')
       /\ (IsReset(modal) /\ ResponseArrives) =>
            /\ modal'.view = modal.view
            /\ modal'.audioMeta = modal.audioMeta
            /\ modal'.currentDuration = modal.currentDuration]_vars

\* The review holds the collection and the counts App holds.
ReviewHoldsCompletedWork ==
    /\ review.slides = app.slides
    /\ review.reviewQuestions = app.reviewQuestions
    /\ review.finalExamQuestions = app.finalExamQuestions

\* C38: going back from FINALIZE to REVIEW keeps the work. The step back
\* leaves App's collection and counts as completion passed them and the
\* review resumes with exactly these; and completing a review that holds
\* exactly what App holds (no action since the way back) gives the same
\* collection, counts and metrics.
GoBackKeepsWork ==
    [][/\ HandleGoBackToReview =>
            /\ app'.slides = app.slides
            /\ app'.reviewQuestions = app.reviewQuestions
            /\ app'.finalExamQuestions = app.finalExamQuestions
            /\ review'.slides = app.slides
            /\ review'.reviewQuestions = app.reviewQuestions
            /\ review'.finalExamQuestions = app.finalExamQuestions
       /\ (CompleteReview /\ ReviewHoldsCompletedWork) =>
            /\ app'.slides = app.slides
            /\ app'.reviewQuestions = app.reviewQuestions
            /\ app'.finalExamQuestions = app.finalExamQuestions
            /\ hook'.called
            /\ hook'.metrics = FinalizationScreen(app.slides,
                    app.reviewQuestions, app.finalExamQuestions).metrics]_vars

\* The review has resumed after a completion with one review question (App
\* holds a count only after a completion) and holds the completed work.
GoBackKeepsWorkWitness ==
    /\ app.appPhase = "REVIEW"
    /\ app.reviewQuestions = 1
    /\ Len(app.slides) = 2
    /\ ReviewHoldsCompletedWork
    /\ allSlidesFinalized(review.slides)

\* C39: for every slide collection the total the word-count export writes
\* equals the engine's totalWords, and the total the audio export sums (and
\* writes as minutes and seconds) equals the engine's totalAvMinutes over
\* the same collection.
ExportTotalsMatchEngine ==
    LET metrics == useCpeCalculator(app.slides, app.reviewQuestions,
                                    app.finalExamQuestions)
    IN  /\ download.report = "WordCount" =>
            download.total = metrics.totalWords
        /\ download.report = "AudioCount" =>
            /\ ExportAvMinutes(SelectSeq(app.slides, InAudioReport))
                    = metrics.totalAvMinutes
            /\ download.total
                    = formatDurationForAudioExport(metrics.totalAvMinutes)
        /\ hook.called =>
            /\ hook.metrics.totalWords = metrics.totalWords
            /\ hook.metrics.totalAvMinutes = metrics.totalAvMinutes

\* The audio report of three slides, one of them discarded, has been
\* downloaded and the FinalizationScreen has computed its metrics.
ExportTotalsMatchEngineWitness ==
    /\ download.report = "AudioCount"
    /\ hook.called
    /\ Len(app.slides) = 3
    /\ Len(download.rows) = 2
    /\ \E i \in 1..3 :
        app.slides[i].isDiscarded /\ app.slides[i].selectedSource = BOTH

====
